---- MODULE Spec2Model ----
(***************************************************************************)
(* Nightlight-O-Matic (src/src/lampomatic.cpp, version 1.2.0): the         *)
(* schedule / timer reconciliation engine.                                 *)
(*                                                                         *)
(* The sketch runs one cooperative loop(): Alarm.delay(50) services the    *)
(* alarm registry, the first-run block restores the stored snapshot, the   *)
(* periodic block (every 60000 ms) resynchronises the clock, toggles the   *)
(* regular alarms for the weekend and derives the outputs, and             *)
(* server.handleClient() serves at most one HTTP request.                  *)
(*                                                                         *)
(* The alarm registry (TimeAlarms) is an external collaborator; it is      *)
(* modelled from its contract in spec.md section 4.1.                      *)
(*                                                                         *)
(* Time abstraction: a day has HoursPerDay hours and the clock is observed *)
(* at minute 0 of each hour (one "observed minute" per hour).  The         *)
(* periodic block runs exactly once in every observed minute, because its  *)
(* period (60000 ms) is one minute.  The offsets handed to the time client *)
(* (timeOffset) and contained in the system clock (sysTimeOffset) are      *)
(* recorded; a change of offset does not shift the observed clock.         *)
(* The interval test itself (unsigned 32-bit millisecond counter) is       *)
(* modelled apart, in SpecMillis.                                          *)
(***************************************************************************)
EXTENDS Integers, Sequences, FiniteSets, TLC

VARIABLES
  activeSchedules,      \* StateContainer activeSchedules (RAM)
  Alarm,                \* the alarm registry: slot id -> slot
  weekdayNow,           \* weekday(): 1 = Sunday .. 7 = Saturday
  hourNow,              \* hour(): 0 .. HoursPerDay-1 (minute is 0)
  updated,              \* the periodic block has run in the current minute
  pc,                   \* position of loop()
  firstRun,             \* bool firstRun
  dstOffsetInSeconds,   \* long dstOffsetInSeconds
  timeOffset,           \* offset handed to timeClient.setTimeOffset
  sysTimeOffset,        \* offset in the time last handed to setTime (0: never called)
  eeprom,               \* committed flash content at eepromAdress
  dayPin,               \* duty cycle driven on dayPin (0 = LOW)
  nightPin,             \* duty cycle driven on nightPin (0 = LOW)
  commitFailures,       \* EEPROM.commit() failures so far (bounded)
  response,             \* status sent by the step just taken (0 = none)
  lastFired,            \* alarm fired by the step just taken (dtINVALID_ALARM_ID = none)
  currentMillis,        \* millis() as loop() last read it: <<high, low>> 16-bit halves
  previousMillis,       \* unsigned long previousMillis: <<high, low>> 16-bit halves
  sinceRun,             \* milliseconds really elapsed since the periodic block last ran
  iterations            \* loop() iterations timed so far (bounded)

vars == <<activeSchedules, Alarm, weekdayNow, hourNow, updated, pc, firstRun,
          dstOffsetInSeconds, timeOffset, sysTimeOffset, eeprom, dayPin,
          nightPin, commitFailures, response, lastFired,
          currentMillis, previousMillis, sinceRun, iterations>>

\* the interval timer of loop(); the schedule engine abstracts it by `updated'
timerVars == <<currentMillis, previousMillis, sinceRun, iterations>>

\* evaluate v once and hand its value to F (sequencing of an imperative body)
Then(v, F(_)) == CHOOSE r \in {F(x) : x \in {v}} : TRUE

----------------------------------------------------------------------------
(* Bounds of the model *)

\* hours in the abstract day; schedule times are drawn from these hours
HoursPerDay == 4

\* failed EEPROM commits explored in one run
MaxCommitFailures == 1

(* Program and library constants *)

dowSunday == 1
dowMonday == 2
dowFriday == 6
dowSaturday == 7
dowAny == 0                    \* alarmRepeat without a day of week: every day
utcOffsetInSeconds == 3600
dtNBR_ALARMS == 20             \* fixed capacity of the registry
dtINVALID_ALARM_ID == 255      \* handle returned by a failed allocation
SmallPool == 12                \* capacity of a registry built without headroom

----------------------------------------------------------------------------
(* Data model: Schedule, OutputState, StateContainer *)

ZeroIds == [i \in 0..5 |-> 0]

\* An uninitialised cell (a local Schedule's timerIds, the times of a local
\* weekend Schedule of which only startHour is set) holds an indeterminate
\* value: it is left out of the function or record, so that any step reading
\* it before it is written is reported by TLC as an error.
NoIds == [i \in {} |-> 0]

Schedule(ids, sh, sm, eh, em) ==
  [timerIds |-> ids, startHour |-> sh, startMinute |-> sm,
   endHour |-> eh, endMinute |-> em]

\* a global StateContainer is zero-initialised at process start
ZeroState ==
  [persistedInEEPROM |-> FALSE, initialized |-> FALSE, dstActive |-> FALSE,
   day |-> Schedule(ZeroIds, 0, 0, 0, 0),
   night |-> Schedule(ZeroIds, 0, 0, 0, 0),
   weekendDay |-> Schedule(ZeroIds, 0, 0, 0, 0),
   weekendNight |-> Schedule(ZeroIds, 0, 0, 0, 0),
   dayIntensity |-> 0, nightIntensity |-> 0,
   currentState |-> [dayActive |-> FALSE, nightActive |-> FALSE]]

\* flash holding no snapshot flagged persisted
Blank == ZeroState

----------------------------------------------------------------------------
(* Alarm registry (spec.md 4.1): allocate / release / setEnabled / tick *)

FreeSlot ==
  [allocated |-> FALSE, isEnabled |-> FALSE, dow |-> 0, hour |-> 0,
   minute |-> 0, handler |-> "none", fired |-> FALSE]

EmptyRegistry(n) == [id \in 0..(n - 1) |-> FreeSlot]

isAllocated(A, id) == id \in DOMAIN A /\ A[id].allocated

FreeIds(A) == {id \in DOMAIN A : ~A[id].allocated}

LiveIds(A) == {id \in DOMAIN A : A[id].allocated}

MinOf(S) == CHOOSE x \in S : \A y \in S : x <= y

\* the lowest free slot at or above id; dtINVALID_ALARM_ID when there is none
RECURSIVE firstFree(_, _)
firstFree(A, id) ==
  IF id \notin DOMAIN A THEN dtINVALID_ALARM_ID
  ELSE IF ~A[id].allocated THEN id
  ELSE firstFree(A, id + 1)

\* allocate: first free slot, armed; dtINVALID_ALARM_ID when the pool is full
alarmRepeat(A, dow, h, m, handler) ==
  LET id == firstFree(A, 0) IN
  IF id = dtINVALID_ALARM_ID
  THEN [reg |-> A, id |-> dtINVALID_ALARM_ID]
  ELSE [reg |-> [A EXCEPT ![id] =
                   [allocated |-> TRUE, isEnabled |-> TRUE, dow |-> dow,
                    hour |-> h, minute |-> m, handler |-> handler,
                    fired |-> FALSE]],
        id |-> id]

\* release: idempotent, a no-op on a free or invalid handle
free(A, id) == IF isAllocated(A, id) THEN [A EXCEPT ![id] = FreeSlot] ELSE A

\* setEnabled(handle, false)
disable(A, id) ==
  IF isAllocated(A, id) THEN [A EXCEPT ![id].isEnabled = FALSE] ELSE A

\* setEnabled(handle, true)
enable(A, id) ==
  IF isAllocated(A, id) THEN [A EXCEPT ![id].isEnabled = TRUE] ELSE A

\* tick: an enabled alarm matching (day of week, hour, minute) that has not
\* fired in this minute yet
Due(A, id, dow, h) ==
  /\ isAllocated(A, id)
  /\ A[id].isEnabled
  /\ ~A[id].fired
  /\ A[id].dow \in {dowAny, dow}
  /\ A[id].hour = h
  /\ A[id].minute = 0

DueIds(A, dow, h) == {id \in DOMAIN A : Due(A, id, dow, h)}

----------------------------------------------------------------------------
(* Arduino String helpers used by handlePostSchedule *)

DigitChars == <<"0", "1", "2", "3", "4", "5", "6", "7", "8", "9">>

IsDigit(c) == \E i \in 1..10 : DigitChars[i] = c

DigitVal(c) == (CHOOSE i \in 1..10 : DigitChars[i] = c) - 1

\* String::substring(left, right): the characters [left, right), clipped
substring(s, left, right) ==
  LET r == IF right > Len(s) THEN Len(s) ELSE right IN
  IF left >= Len(s) \/ left >= r THEN <<>> ELSE SubSeq(s, left + 1, r)

\* String::substring(left): from left to the end
substringFrom(s, left) == substring(s, left, Len(s))

RECURSIVE leadingDigits(_, _)
leadingDigits(s, acc) ==
  IF s = <<>> \/ ~IsDigit(Head(s)) THEN acc
  ELSE leadingDigits(Tail(s), acc * 10 + DigitVal(Head(s)))

RECURSIVE skipSpaces(_)
skipSpaces(s) == IF s # <<>> /\ Head(s) = " " THEN skipSpaces(Tail(s)) ELSE s

\* String::toInt (atol): optional blanks, optional sign, leading digits; 0 if none
toInt(s) ==
  LET t == skipSpaces(s) IN
  IF t # <<>> /\ Head(t) = "-" THEN 0 - leadingDigits(Tail(t), 0)
  ELSE IF t # <<>> /\ Head(t) = "+" THEN leadingDigits(Tail(t), 0)
  ELSE leadingDigits(t, 0)

\* ESP8266WebServer: hasArg / arg on a request (field name -> value)
hasArg(req, name) == name \in DOMAIN req

arg(req, name) == IF name \in DOMAIN req THEN req[name] ELSE <<>>

\* hasArg(name) && arg(name) != NULL
present(req, name) == hasArg(req, name) /\ arg(req, name) # <<>>

superSecretPassword == <<"z", "u", "u", "l">>

serverHasRequiredArgs(req) ==
  /\ present(req, "nightStart") /\ present(req, "nightEnd")
  /\ present(req, "dayStart") /\ present(req, "dayEnd")
  /\ present(req, "nightIntensity") /\ present(req, "dayIntensity")

serverHasOptionalArgs(req) ==
  /\ present(req, "weekendDayStart") /\ present(req, "weekendDayEnd")
  /\ present(req, "weekendNightStart") /\ present(req, "weekendNightEnd")

----------------------------------------------------------------------------
(* Set-Get-Read schedule and timers *)

RECURSIVE clearFrom(_, _, _, _)
clearFrom(A, timerIds, i, size) ==
  IF i >= size THEN A
  ELSE Then(free(A, timerIds[i]), LAMBDA a : clearFrom(a, timerIds, i + 1, size))

\* a teardown loop that releases the slot after the recorded one
RECURSIVE clearFrom_nextHandle(_, _, _, _)
clearFrom_nextHandle(A, timerIds, i, size) ==
  IF i >= size THEN A
  ELSE Then(free(A, timerIds[i] + 1),
            LAMBDA a : clearFrom_nextHandle(a, timerIds, i + 1, size))

clearOldTimers_nextHandle(A, timerIds, size) == clearFrom_nextHandle(A, timerIds, 0, size)

\* clearOldTimers: Alarm.free(timerIds[i]) for i = 0 .. size-1
clearOldTimers(A, timerIds, size) == clearFrom(A, timerIds, 0, size)

\* a teardown that forgets the weekend alarms of the schedule being replaced
setScheduleClear_keepWeekend(st, A) ==
  IF st.initialized
  THEN Then(clearOldTimers(A, st.day.timerIds, 2), LAMBDA a1 :
         clearOldTimers(a1, st.night.timerIds, 2))
  ELSE A

\* setSchedule, first block: release the alarms of the schedule being replaced
setScheduleClear(st, A) ==
  IF st.initialized
  THEN Then(clearOldTimers(A, st.day.timerIds, 2), LAMBDA a1 :
       Then(clearOldTimers(a1, st.night.timerIds, 2), LAMBDA a2 :
         IF st.weekendDay.startHour # -1
         THEN Then(clearOldTimers(a2, st.weekendDay.timerIds, 6), LAMBDA a3 :
                clearOldTimers(a3, st.weekendNight.timerIds, 5))
         ELSE a2))
  ELSE A

\* an assignment block that also clears the output state
setScheduleAssign_resetOutput(st, day, night, dst, weekendDay, weekendNight) ==
  [st EXCEPT !.dstActive = dst,
             !.persistedInEEPROM = FALSE,
             !.day = day,
             !.night = night,
             !.weekendDay = weekendDay,
             !.weekendNight = weekendNight,
             !.currentState = [dayActive |-> FALSE, nightActive |-> FALSE]]

\* an assignment block that stores the night schedule in the day field too
setScheduleAssign_nightAsDay(st, day, night, dst, weekendDay, weekendNight) ==
  [st EXCEPT !.dstActive = dst,
             !.persistedInEEPROM = FALSE,
             !.day = night,
             !.night = night,
             !.weekendDay = weekendDay,
             !.weekendNight = weekendNight]

\* an assignment block that keeps the weekend schedules in RAM when the new
\* schedule has none
setScheduleAssign_mergeWeekend(st, day, night, dst, weekendDay, weekendNight) ==
  [st EXCEPT !.dstActive = dst,
             !.persistedInEEPROM = FALSE,
             !.day = day,
             !.night = night,
             !.weekendDay = IF weekendDay.startHour = -1 THEN @ ELSE weekendDay,
             !.weekendNight = IF weekendNight.startHour = -1 THEN @ ELSE weekendNight]

\* setSchedule, second block: overwrite the schedule held in RAM
setScheduleAssign(st, day, night, dst, weekendDay, weekendNight) ==
  [st EXCEPT !.dstActive = dst,
             !.persistedInEEPROM = FALSE,
             !.day = day,
             !.night = night,
             !.weekendDay = weekendDay,
             !.weekendNight = weekendNight]

AlarmReq(dow, h, m, handler) ==
  [dow |-> dow, hour |-> h, minute |-> m, handler |-> handler]

\* Alarm.alarmRepeat for each request in turn; the handles in request order
RECURSIVE allocAll(_, _, _)
allocAll(A, reqs, i) ==
  IF i > Len(reqs) THEN [reg |-> A, ids |-> <<>>]
  ELSE Then(alarmRepeat(A, reqs[i].dow, reqs[i].hour, reqs[i].minute, reqs[i].handler),
         LAMBDA a : Then(allocAll(a.reg, reqs, i + 1),
           LAMBDA rest : [reg |-> rest.reg, ids |-> <<a.id>> \o rest.ids]))

\* weekend day alarms whose Friday end is taken from the regular day schedule
weekendDayAlarms_fridayRegularEnd(st) ==
  <<AlarmReq(dowFriday, st.day.startHour, st.day.startMinute, "startDay"),
    AlarmReq(dowFriday, st.day.endHour, st.day.endMinute, "endDay"),
    AlarmReq(dowSaturday, st.weekendDay.startHour, st.weekendDay.startMinute, "startDay"),
    AlarmReq(dowSaturday, st.weekendDay.endHour, st.weekendDay.endMinute, "endDay"),
    AlarmReq(dowSunday, st.weekendDay.startHour, st.weekendDay.startMinute, "startDay"),
    AlarmReq(dowSunday, st.day.endHour, st.day.endMinute, "endDay")>>

\* setAlarms, weekend days: weekendDay.timerIds[0..5]
weekendDayAlarms(st) ==
  <<AlarmReq(dowFriday, st.day.startHour, st.day.startMinute, "startDay"),
    AlarmReq(dowFriday, st.weekendDay.endHour, st.weekendDay.endMinute, "endDay"),
    AlarmReq(dowSaturday, st.weekendDay.startHour, st.weekendDay.startMinute, "startDay"),
    AlarmReq(dowSaturday, st.weekendDay.endHour, st.weekendDay.endMinute, "endDay"),
    AlarmReq(dowSunday, st.weekendDay.startHour, st.weekendDay.startMinute, "startDay"),
    AlarmReq(dowSunday, st.day.endHour, st.day.endMinute, "endDay")>>

\* weekend night alarms whose Sunday start is taken from the weekend night
\* schedule
weekendNightAlarms_sundayWeekendStart(st) ==
  <<AlarmReq(dowFriday, st.weekendNight.startHour, st.weekendNight.startMinute, "startNight"),
    AlarmReq(dowSaturday, st.weekendNight.endHour, st.weekendNight.endMinute, "endNight"),
    AlarmReq(dowSaturday, st.weekendNight.startHour, st.weekendNight.startMinute, "startNight"),
    AlarmReq(dowSunday, st.weekendNight.endHour, st.weekendNight.endMinute, "endNight"),
    AlarmReq(dowSunday, st.weekendNight.startHour, st.weekendNight.startMinute, "startNight")>>

\* setAlarms, weekend nights: weekendNight.timerIds[0..4]
weekendNightAlarms(st) ==
  <<AlarmReq(dowFriday, st.weekendNight.startHour, st.weekendNight.startMinute, "startNight"),
    AlarmReq(dowSaturday, st.weekendNight.endHour, st.weekendNight.endMinute, "endNight"),
    AlarmReq(dowSaturday, st.weekendNight.startHour, st.weekendNight.startMinute, "startNight"),
    AlarmReq(dowSunday, st.weekendNight.endHour, st.weekendNight.endMinute, "endNight"),
    AlarmReq(dowSunday, st.night.startHour, st.night.startMinute, "startNight")>>

\* regular alarms whose night end alarm calls startNight
regularAlarms_noNightEnd(st) ==
  <<AlarmReq(dowAny, st.day.startHour, st.day.startMinute, "startDay"),
    AlarmReq(dowAny, st.day.endHour, st.day.endMinute, "endDay"),
    AlarmReq(dowAny, st.night.startHour, st.night.startMinute, "startNight"),
    AlarmReq(dowAny, st.night.endHour, st.night.endMinute, "startNight")>>

\* setAlarms, "regular programming": day.timerIds[0..1], night.timerIds[0..1]
regularAlarms(st) ==
  <<AlarmReq(dowAny, st.day.startHour, st.day.startMinute, "startDay"),
    AlarmReq(dowAny, st.day.endHour, st.day.endMinute, "endDay"),
    AlarmReq(dowAny, st.night.startHour, st.night.startMinute, "startNight"),
    AlarmReq(dowAny, st.night.endHour, st.night.endMinute, "endNight")>>

\* a setAlarms that records the handle of the day start alarm for the night
\* start alarm too
setAlarms_sharedHandle(st, A, weekendActive) ==
  Then(allocAll(A, IF weekendActive
                   THEN weekendDayAlarms(st) \o weekendNightAlarms(st)
                   ELSE <<>>, 1), LAMBDA w :
  Then(allocAll(w.reg, regularAlarms(st), 1), LAMBDA r :
    [st |-> [st EXCEPT
               !.weekendDay.timerIds =
                  IF weekendActive THEN [i \in 0..5 |-> w.ids[i + 1]] ELSE @,
               !.weekendNight.timerIds =
                  IF weekendActive THEN [i \in 0..4 |-> w.ids[i + 7]] @@ @ ELSE @,
               !.day.timerIds = (0 :> r.ids[1] @@ 1 :> r.ids[2]) @@ @,
               !.night.timerIds = (0 :> r.ids[1] @@ 1 :> r.ids[4]) @@ @],
     reg |-> r.reg]))

\* setAlarms: the weekend alarms first (if any), then the regular ones
setAlarms(st, A, weekendActive) ==
  Then(allocAll(A, IF weekendActive
                   THEN weekendDayAlarms(st) \o weekendNightAlarms(st)
                   ELSE <<>>, 1), LAMBDA w :
  Then(allocAll(w.reg, regularAlarms(st), 1), LAMBDA r :
    [st |-> [st EXCEPT
               !.weekendDay.timerIds =
                  IF weekendActive THEN [i \in 0..5 |-> w.ids[i + 1]] ELSE @,
               !.weekendNight.timerIds =
                  IF weekendActive THEN [i \in 0..4 |-> w.ids[i + 7]] @@ @ ELSE @,
               !.day.timerIds = (0 :> r.ids[1] @@ 1 :> r.ids[2]) @@ @,
               !.night.timerIds = (0 :> r.ids[3] @@ 1 :> r.ids[4]) @@ @],
     reg |-> r.reg]))

\* a setSchedule that allocates the new alarms before releasing the old ones
setSchedule_allocFirst(st, A, day, night, dst, weekendDay, weekendNight) ==
  Then(setScheduleAssign(st, day, night, dst, weekendDay, weekendNight), LAMBDA assigned :
  Then(setAlarms(assigned, A, weekendDay.startHour # -1), LAMBDA armed :
  Then(setScheduleClear(st, armed.reg), LAMBDA cleared :
    [st |-> [armed.st EXCEPT !.initialized = TRUE],
     reg |-> cleared,
     dstOffset |-> IF dst THEN 3600 ELSE 0])))

\* a setSchedule that does not record that a schedule is installed
setSchedule_neverInitialized(st, A, day, night, dst, weekendDay, weekendNight) ==
  Then(setScheduleClear(st, A), LAMBDA cleared :
  Then(setScheduleAssign(st, day, night, dst, weekendDay, weekendNight), LAMBDA assigned :
  Then(setAlarms(assigned, cleared, weekendDay.startHour # -1), LAMBDA armed :
    [st |-> armed.st,
     reg |-> armed.reg,
     dstOffset |-> IF dst THEN 3600 ELSE 0])))

\* setSchedule: returns the new state, registry and DST offset
setSchedule(st, A, day, night, dst, weekendDay, weekendNight) ==
  Then(setScheduleClear(st, A), LAMBDA cleared :
  Then(setScheduleAssign(st, day, night, dst, weekendDay, weekendNight), LAMBDA assigned :
  Then(setAlarms(assigned, cleared, weekendDay.startHour # -1), LAMBDA armed :
    [st |-> [armed.st EXCEPT !.initialized = TRUE],
     reg |-> armed.reg,
     dstOffset |-> IF dst THEN 3600 ELSE 0])))

----------------------------------------------------------------------------
(* EEPROM *)

\* a save that flags the state persisted whatever the commit returned
saveSettings_alwaysPersisted(st, flash, saveOk) ==
  LET toSave == [st EXCEPT !.persistedInEEPROM = TRUE] IN
  [st |-> [st EXCEPT !.persistedInEEPROM = TRUE],
   flash |-> IF saveOk THEN toSave ELSE flash,
   saveOk |-> saveOk]

\* a save that forgets the schedule in RAM when the commit fails
saveSettings_dropOnFailure(st, flash, saveOk) ==
  LET toSave == [st EXCEPT !.persistedInEEPROM = TRUE] IN
  [st |-> [st EXCEPT !.persistedInEEPROM = saveOk,
                     !.initialized = IF saveOk THEN @ ELSE FALSE],
   flash |-> IF saveOk THEN toSave ELSE flash,
   saveOk |-> saveOk]

\* a save whose stored copy keeps the output state already in flash
saveSettings_staleOutput(st, flash, saveOk) ==
  LET toSave == [st EXCEPT !.persistedInEEPROM = TRUE,
                           !.currentState = flash.currentState] IN
  [st |-> [st EXCEPT !.persistedInEEPROM = saveOk],
   flash |-> IF saveOk THEN toSave ELSE flash,
   saveOk |-> saveOk]

\* saveSettings: put a copy flagged persisted, commit, record the outcome
saveSettings(st, flash, saveOk) ==
  LET toSave == [st EXCEPT !.persistedInEEPROM = TRUE] IN
  [st |-> [st EXCEPT !.persistedInEEPROM = saveOk],
   flash |-> IF saveOk THEN toSave ELSE flash,
   saveOk |-> saveOk]

\* a restore that adopts the stored schedule but not the stored output state
readSavedSettings_scheduleOnly(st, flash, dstOffset) ==
  IF flash.persistedInEEPROM
  THEN [st |-> [flash EXCEPT !.currentState = st.currentState],
        dstOffset |-> IF flash.dstActive THEN 3600 ELSE 0]
  ELSE [st |-> st, dstOffset |-> dstOffset]

\* readSavedSettings: adopt the stored snapshot if it is flagged persisted
readSavedSettings(st, flash, dstOffset) ==
  IF flash.persistedInEEPROM
  THEN [st |-> flash, dstOffset |-> IF flash.dstActive THEN 3600 ELSE 0]
  ELSE [st |-> st, dstOffset |-> dstOffset]

----------------------------------------------------------------------------
(* Weekend toggle and outputs *)

\* a toggle that suspends the regular alarms for the weekend and never
\* arms them again
setWeekendTimerState_neverEnable(st, A, dow) ==
  IF dow = dowFriday \/ dow = dowSaturday \/ dow = dowSunday
  THEN disable(disable(disable(disable(A, st.day.timerIds[0]), st.day.timerIds[1]),
                       st.night.timerIds[0]), st.night.timerIds[1])
  ELSE A

\* a toggle that also suspends the weekend alarms on the other days
setWeekendTimerState_weekendToo(st, A, dow) ==
  IF dow = dowFriday \/ dow = dowSaturday \/ dow = dowSunday
  THEN disable(disable(disable(disable(A, st.day.timerIds[0]), st.day.timerIds[1]),
                       st.night.timerIds[0]), st.night.timerIds[1])
  ELSE disable(enable(enable(enable(enable(A, st.night.timerIds[0]), st.night.timerIds[1]),
                             st.day.timerIds[0]), st.day.timerIds[1]),
               st.weekendDay.timerIds[0])

setWeekendTimerState(st, A, dow) ==
  IF dow = dowFriday \/ dow = dowSaturday \/ dow = dowSunday
  THEN disable(disable(disable(disable(A, st.day.timerIds[0]), st.day.timerIds[1]),
                       st.night.timerIds[0]), st.night.timerIds[1])
  ELSE enable(enable(enable(enable(A, st.night.timerIds[0]), st.night.timerIds[1]),
                     st.day.timerIds[0]), st.day.timerIds[1])

\* C integer division truncates towards zero
cdiv(a, b) == IF a >= 0 THEN a \div b ELSE 0 - ((0 - a) \div b)

\* Arduino map(x, in_min, in_max, out_min, out_max)
map(x, inMin, inMax, outMin, outMax) ==
  cdiv((x - inMin) * (outMax - outMin), inMax - inMin) + outMin

\* an output derivation that drives both pins from the night intensity
setOutputState_nightIntensity(st) ==
  [day |-> IF st.currentState.dayActive THEN map(st.nightIntensity, 0, 100, 0, 1023) ELSE 0,
   night |-> IF st.currentState.nightActive THEN map(st.nightIntensity, 0, 100, 0, 1023) ELSE 0]

\* setOutputState: the values written to (dayPin, nightPin); 0 is LOW
setOutputState(st) ==
  [day |-> IF st.currentState.dayActive THEN map(st.dayIntensity, 0, 100, 0, 1023) ELSE 0,
   night |-> IF st.currentState.nightActive THEN map(st.nightIntensity, 0, 100, 0, 1023) ELSE 0]

----------------------------------------------------------------------------
(* Status page: the times as handleRoot and handleGetTime print them *)

\* String(int): decimal digits, with a sign for a negative value
RECURSIVE decimal(_)
decimal(n) ==
  IF n < 0 THEN <<"-">> \o decimal(0 - n)
  ELSE IF n < 10 THEN <<DigitChars[n + 1]>>
  ELSE decimal(n \div 10) \o <<DigitChars[(n % 10) + 1]>>

\* value < 10 ? "0" + String(value) : String(value)
twoDigits(n) == IF n < 10 THEN <<"0">> \o decimal(n) ELSE decimal(n)

\* getFormattedHourMinuteConcatenation for dayStart, dayEnd, nightStart, nightEnd
getFormattedHourMinuteConcatenation(st, scheduleType) ==
  CASE scheduleType = "dayStart" ->
         twoDigits(st.day.startHour) \o <<":">> \o twoDigits(st.day.startMinute)
    [] scheduleType = "dayEnd" ->
         twoDigits(st.day.endHour) \o <<":">> \o twoDigits(st.day.endMinute)
    [] scheduleType = "nightStart" ->
         twoDigits(st.night.startHour) \o <<":">> \o twoDigits(st.night.startMinute)
    [] scheduleType = "nightEnd" ->
         twoDigits(st.night.endHour) \o <<":">> \o twoDigits(st.night.endMinute)

----------------------------------------------------------------------------
(* HTTP requests offered to the server *)

\* "HH:MM" as an <input type="time"> submits it
TimeArg(h, m) ==
  <<DigitChars[(h \div 10) + 1], DigitChars[(h % 10) + 1], ":",
    DigitChars[(m \div 10) + 1], DigitChars[(m % 10) + 1]>>

Key == "gatekeeper" :> superSecretPassword

Regular(ds, de, ns, ne, di, ni) ==
  Key @@ ("dayStart" :> TimeArg(ds, 0)) @@ ("dayEnd" :> TimeArg(de, 0))
      @@ ("nightStart" :> TimeArg(ns, 0)) @@ ("nightEnd" :> TimeArg(ne, 0))
      @@ ("dayIntensity" :> di) @@ ("nightIntensity" :> ni)

Weekend(ds, de, ns, ne) ==
  ("weekendDayStart" :> TimeArg(ds, 0)) @@ ("weekendDayEnd" :> TimeArg(de, 0))
      @@ ("weekendNightStart" :> TimeArg(ns, 0)) @@ ("weekendNightEnd" :> TimeArg(ne, 0))

LastHour == HoursPerDay - 1

\* day 01:00 - last hour, night last hour - 01:00, no weekend override
ReqRegular == Regular(1, LastHour, LastHour, 1, <<"8", "0">>, <<"3", "0">>)

\* day 01:00 - 02:00, night last hour - 01:00, with a weekend override
\* (day 02:00 - last hour, night 02:00 - 00:00) and DST on; each weekend
\* time differs from the regular time of the same kind
ReqWeekend ==
  Regular(1, 2, LastHour, 1, <<"8", "0">>, <<"3", "0">>)
    @@ Weekend(2, LastHour, 2, 0) @@ ("dst" :> <<"o", "n">>)

\* an out-of-range time of day: dayStart = 24:00
ReqBadHour == ("dayStart" :> TimeArg(24, 0)) @@ ReqRegular

\* only one of the four weekend times supplied
ReqPartialWeekend == ReqRegular @@ ("weekendDayStart" :> TimeArg(2, 0))

\* wrong shared secret, missing shared secret, missing required field
ReqWrongKey == ("gatekeeper" :> <<"x">>) @@ ReqWeekend
ReqNoKey == [n \in DOMAIN ReqWeekend \ {"gatekeeper"} |-> ReqWeekend[n]]
ReqNoDayEnd == [n \in DOMAIN ReqWeekend \ {"dayEnd"} |-> ReqWeekend[n]]

\* times of day around the one-digit / two-digit boundaries
SampleHours == {0, 9, 10, 23}
SampleMinutes == {0, 9, 10, 59}

\* a regular schedule: day h:m - (23-h):(59-m), night (23-h):(59-m) - h:m
ReqTimes(h, m) ==
  Key @@ ("dayStart" :> TimeArg(h, m)) @@ ("dayEnd" :> TimeArg(23 - h, 59 - m))
      @@ ("nightStart" :> TimeArg(23 - h, 59 - m)) @@ ("nightEnd" :> TimeArg(h, m))
      @@ ("dayIntensity" :> <<"8", "0">>) @@ ("nightIntensity" :> <<"3", "0">>)

TimeRequests == {ReqTimes(h, m) : h \in SampleHours, m \in SampleMinutes}

\* empty shared secret
ReqEmptyKey == ("gatekeeper" :> <<>>) @@ ReqWeekend

\* an intensity outside 1 .. 100
ReqBadIntensity == ("dayIntensity" :> <<"1", "5", "0">>) @@ ReqRegular

Requests ==
  {ReqRegular, ReqWeekend, ReqBadHour, ReqPartialWeekend,
   ReqWrongKey, ReqNoKey, ReqNoDayEnd, ReqEmptyKey, ReqBadIntensity}

----------------------------------------------------------------------------
(* handlePostSchedule *)

\* a local Schedule filled from two "HH:MM" fields; timerIds stay uninitialised
parsedSchedule(req, startName, endName) ==
  Schedule(NoIds,
           toInt(substring(arg(req, startName), 0, 2)),
           toInt(substringFrom(arg(req, startName), 3)),
           toInt(substring(arg(req, endName), 0, 2)),
           toInt(substringFrom(arg(req, endName), 3)))

\* a local Schedule of which only startHour = -1 is set
unsetSchedule == [timerIds |-> NoIds, startHour |-> -1]

\* an accepted branch that services a due alarm between setSchedule and
\* saveSettings
acceptSchedule_servicesAlarms(st, A, flash, req, saveOk) ==
  LET st1 == [st EXCEPT !.nightIntensity = toInt(arg(req, "nightIntensity")),
                        !.dayIntensity = toInt(arg(req, "dayIntensity"))]
      dst == hasArg(req, "dst") /\ arg(req, "dst") = <<"o", "n">>
      day == parsedSchedule(req, "dayStart", "dayEnd")
      night == parsedSchedule(req, "nightStart", "nightEnd")
      opt == serverHasOptionalArgs(req)
      weekendDay == IF opt THEN parsedSchedule(req, "weekendDayStart", "weekendDayEnd")
                    ELSE unsetSchedule
      weekendNight == IF opt THEN parsedSchedule(req, "weekendNightStart", "weekendNightEnd")
                      ELSE unsetSchedule
  IN Then(setSchedule(st1, A, day, night, dst, weekendDay, weekendNight), LAMBDA set :
     Then(DueIds(set.reg, weekdayNow, hourNow), LAMBDA due :
     Then(IF due = {} THEN set.st
          ELSE [set.st EXCEPT
                  !.currentState.dayActive =
                     IF set.reg[MinOf(due)].handler = "startDay" THEN TRUE
                     ELSE IF set.reg[MinOf(due)].handler = "endDay" THEN FALSE ELSE @,
                  !.currentState.nightActive =
                     IF set.reg[MinOf(due)].handler = "startNight" THEN TRUE
                     ELSE IF set.reg[MinOf(due)].handler = "endNight" THEN FALSE ELSE @],
          LAMBDA serviced :
     Then(saveSettings(serviced, flash, saveOk), LAMBDA saved :
       [st |-> saved.st, reg |-> set.reg, dstOffset |-> set.dstOffset,
        flash |-> saved.flash, saveOk |-> saveOk]))))

\* the accepted branch: intensities, parsing, setSchedule, saveSettings
acceptSchedule(st, A, flash, req, saveOk) ==
  LET st1 == [st EXCEPT !.nightIntensity = toInt(arg(req, "nightIntensity")),
                        !.dayIntensity = toInt(arg(req, "dayIntensity"))]
      dst == hasArg(req, "dst") /\ arg(req, "dst") = <<"o", "n">>
      day == parsedSchedule(req, "dayStart", "dayEnd")
      night == parsedSchedule(req, "nightStart", "nightEnd")
      opt == serverHasOptionalArgs(req)
      weekendDay == IF opt THEN parsedSchedule(req, "weekendDayStart", "weekendDayEnd")
                    ELSE unsetSchedule
      weekendNight == IF opt THEN parsedSchedule(req, "weekendNightStart", "weekendNightEnd")
                      ELSE unsetSchedule
  IN Then(setSchedule(st1, A, day, night, dst, weekendDay, weekendNight), LAMBDA set :
     Then(saveSettings(set.st, flash, saveOk), LAMBDA saved :
       [st |-> saved.st, reg |-> set.reg, dstOffset |-> set.dstOffset,
        flash |-> saved.flash, saveOk |-> saveOk]))

\* a handler that does not compare the shared secret
postStatus_noAuth(req) ==
  IF ~hasArg(req, "gatekeeper") \/ arg(req, "gatekeeper") = <<>> THEN 400
  ELSE IF serverHasRequiredArgs(req) THEN 200 ELSE 400

\* the status handlePostSchedule answers with
postStatus(req) ==
  IF ~hasArg(req, "gatekeeper") \/ arg(req, "gatekeeper") = <<>> THEN 400
  ELSE IF arg(req, "gatekeeper") = superSecretPassword
       THEN IF serverHasRequiredArgs(req) THEN 200 ELSE 400
       ELSE 401

----------------------------------------------------------------------------
(* Initial state: after setup(), before the first loop() iteration *)

\* the schedule engine after setup()
InitEngine(capacity) ==
  /\ activeSchedules = ZeroState
  /\ Alarm = EmptyRegistry(capacity)
  /\ weekdayNow \in 1..7
  /\ hourNow \in 0..LastHour
  /\ updated = TRUE
  /\ pc = "delay"
  /\ firstRun = TRUE
  /\ dstOffsetInSeconds = 0
  /\ timeOffset = utcOffsetInSeconds + 0
  /\ sysTimeOffset = 0
  /\ eeprom = Blank
  /\ dayPin = 0
  /\ nightPin = 0
  /\ commitFailures = 0
  /\ response = 0
  /\ lastFired = dtINVALID_ALARM_ID

InitWith(capacity) ==
  /\ InitEngine(capacity)
  /\ currentMillis = <<0, 0>>
  /\ previousMillis = <<0, 0>>
  /\ sinceRun = 0
  /\ iterations = 0

Init == InitWith(dtNBR_ALARMS)

\* the same sketch linked against a registry without headroom
InitSmallPool == InitWith(SmallPool)

----------------------------------------------------------------------------
(* loop(): Alarm.delay(50) *)

\* EEPROM.commit() may fail, at most MaxCommitFailures times in a run
CommitOutcomes == IF commitFailures < MaxCommitFailures THEN BOOLEAN ELSE {TRUE}

NoneDue == DueIds(Alarm, weekdayNow, hourNow) = {}

NextDue == MinOf(DueIds(Alarm, weekdayNow, hourNow))

\* the wall clock reaches the next observed minute while the loop waits
TimePasses ==
  /\ UNCHANGED timerVars
  /\ pc = "delay"
  /\ updated
  /\ NoneDue
  /\ hourNow' = (hourNow + 1) % HoursPerDay
  /\ weekdayNow' = IF hourNow = LastHour THEN (weekdayNow % 7) + 1 ELSE weekdayNow
  /\ updated' = FALSE
  /\ Alarm' = [id \in DOMAIN Alarm |-> [Alarm[id] EXCEPT !.fired = FALSE]]
  /\ response' = 0
  /\ lastFired' = dtINVALID_ALARM_ID
  /\ UNCHANGED <<activeSchedules, pc, firstRun, dstOffsetInSeconds, timeOffset,
                 sysTimeOffset, eeprom, dayPin, nightPin, commitFailures>>

\* an alarm callback: set or clear one output flag, then saveSettings(0, ...)
callback(handler, st) ==
  CASE handler = "startDay" -> [st EXCEPT !.currentState.dayActive = TRUE]
    [] handler = "endDay" -> [st EXCEPT !.currentState.dayActive = FALSE]
    [] handler = "startNight" -> [st EXCEPT !.currentState.nightActive = TRUE]
    [] handler = "endNight" -> [st EXCEPT !.currentState.nightActive = FALSE]

\* serviceAlarms fires the due alarm with the lowest id
Fire(handler) ==
  /\ UNCHANGED timerVars
  /\ pc = "delay"
  /\ ~NoneDue
  /\ Alarm[NextDue].handler = handler
  /\ \E saveOk \in CommitOutcomes :
       \E saved \in {saveSettings(callback(handler, activeSchedules), eeprom, saveOk)} :
       /\ activeSchedules' = saved.st
       /\ eeprom' = saved.flash
       /\ commitFailures' = commitFailures + (IF saveOk THEN 0 ELSE 1)
  /\ Alarm' = [Alarm EXCEPT ![NextDue].fired = TRUE]
  /\ response' = 0
  /\ lastFired' = NextDue
  /\ UNCHANGED <<weekdayNow, hourNow, updated, pc, firstRun, dstOffsetInSeconds,
                 timeOffset, sysTimeOffset, dayPin, nightPin>>

startDay == Fire("startDay")
endDay == Fire("endDay")
startNight == Fire("startNight")
endNight == Fire("endNight")

\* Alarm.delay returns once nothing is due
AlarmDelayReturns ==
  /\ UNCHANGED timerVars
  /\ pc = "delay"
  /\ NoneDue
  /\ pc' = IF firstRun THEN "firstRun" ELSE "periodic"
  /\ response' = 0
  /\ lastFired' = dtINVALID_ALARM_ID
  /\ UNCHANGED <<activeSchedules, Alarm, weekdayNow, hourNow, updated, firstRun,
                 dstOffsetInSeconds, timeOffset, sysTimeOffset, eeprom, dayPin,
                 nightPin, commitFailures>>

----------------------------------------------------------------------------
(* loop(): the first-run block *)

FirstRunBlock ==
  /\ UNCHANGED timerVars
  /\ pc = "firstRun"
  /\ firstRun' = FALSE
  /\ pc' = "periodic"
  /\ \E read \in {readSavedSettings(activeSchedules, eeprom, dstOffsetInSeconds)} :
     IF read.st.persistedInEEPROM
     THEN \E set \in {setSchedule(read.st, Alarm, read.st.day, read.st.night,
                                  read.st.dstActive, read.st.weekendDay,
                                  read.st.weekendNight)} :
          \E out \in {setOutputState(set.st)} :
             /\ activeSchedules' = set.st
             /\ Alarm' = set.reg
             /\ dstOffsetInSeconds' = set.dstOffset
             /\ timeOffset' = utcOffsetInSeconds + set.dstOffset
             /\ dayPin' = out.day
             /\ nightPin' = out.night
     ELSE /\ activeSchedules' = read.st
          /\ dstOffsetInSeconds' = read.dstOffset
          /\ UNCHANGED <<Alarm, timeOffset, dayPin, nightPin>>
  /\ response' = 0
  /\ lastFired' = dtINVALID_ALARM_ID
  /\ UNCHANGED <<weekdayNow, hourNow, updated, sysTimeOffset, eeprom,
                 commitFailures>>

----------------------------------------------------------------------------
(* loop(): the periodic block, every 60000 ms *)

\* a toggle that does not ask whether a weekend schedule is configured
weekendToggle_always(st, A, dow) == setWeekendTimerState(st, A, dow)

\* "Enable or disable timers depending on day and if weekend is active"
weekendToggle(st, A, dow) ==
  IF st.weekendDay.startHour # -1 THEN setWeekendTimerState(st, A, dow) ELSE A

\* a periodic block that toggles the alarms but does not derive the outputs
PeriodicBlock_noOutput ==
  /\ UNCHANGED timerVars
  /\ pc = "periodic"
  /\ ~updated
  /\ updated' = TRUE
  /\ pc' = "client"
  /\ sysTimeOffset' = timeOffset
  /\ IF activeSchedules.initialized
     THEN Alarm' = weekendToggle(activeSchedules, Alarm, weekdayNow)
     ELSE UNCHANGED Alarm
  /\ response' = 0
  /\ lastFired' = dtINVALID_ALARM_ID
  /\ UNCHANGED <<activeSchedules, weekdayNow, hourNow, firstRun, dstOffsetInSeconds,
                 timeOffset, eeprom, commitFailures, dayPin, nightPin>>

PeriodicBlock ==
  /\ UNCHANGED timerVars
  /\ pc = "periodic"
  /\ ~updated
  /\ updated' = TRUE
  /\ pc' = "client"
  /\ sysTimeOffset' = timeOffset
  /\ IF activeSchedules.initialized
     THEN \E out \in {setOutputState(activeSchedules)} :
          /\ Alarm' = weekendToggle(activeSchedules, Alarm, weekdayNow)
          /\ dayPin' = out.day
          /\ nightPin' = out.night
     ELSE UNCHANGED <<Alarm, dayPin, nightPin>>
  /\ response' = 0
  /\ lastFired' = dtINVALID_ALARM_ID
  /\ UNCHANGED <<activeSchedules, weekdayNow, hourNow, firstRun, dstOffsetInSeconds,
                 timeOffset, eeprom, commitFailures>>

\* the interval has not elapsed
PeriodicNotDue ==
  /\ UNCHANGED timerVars
  /\ pc = "periodic"
  /\ updated
  /\ pc' = "client"
  /\ UNCHANGED <<activeSchedules, Alarm, weekdayNow, hourNow, updated, firstRun,
                 dstOffsetInSeconds, timeOffset, sysTimeOffset, eeprom, dayPin,
                 nightPin, commitFailures>>
  /\ response' = 0
  /\ lastFired' = dtINVALID_ALARM_ID

----------------------------------------------------------------------------
(* loop(): server.handleClient() *)

NoRequest ==
  /\ UNCHANGED timerVars
  /\ pc = "client"
  /\ pc' = "delay"
  /\ UNCHANGED <<activeSchedules, Alarm, weekdayNow, hourNow, updated, firstRun,
                 dstOffsetInSeconds, timeOffset, sysTimeOffset, eeprom, dayPin,
                 nightPin, commitFailures>>
  /\ response' = 0
  /\ lastFired' = dtINVALID_ALARM_ID

handlePost(req) ==
  /\ UNCHANGED timerVars
  /\ pc = "client"
  /\ pc' = "delay"
  /\ response' = postStatus(req)
  /\ IF postStatus(req) = 200
     THEN \E saveOk \in CommitOutcomes :
            \E acc \in {acceptSchedule(activeSchedules, Alarm, eeprom, req, saveOk)} :
            /\ activeSchedules' = acc.st
            /\ Alarm' = acc.reg
            /\ dstOffsetInSeconds' = acc.dstOffset
            /\ timeOffset' = utcOffsetInSeconds + acc.dstOffset
            /\ eeprom' = acc.flash
            /\ commitFailures' = commitFailures + (IF saveOk THEN 0 ELSE 1)
     ELSE UNCHANGED <<activeSchedules, Alarm, dstOffsetInSeconds, timeOffset,
                      eeprom, commitFailures>>
  /\ lastFired' = dtINVALID_ALARM_ID
  /\ UNCHANGED <<weekdayNow, hourNow, updated, firstRun, sysTimeOffset, dayPin,
                 nightPin>>

handlePostSchedule == \E req \in Requests : handlePost(req)

----------------------------------------------------------------------------
(* Power loss and reboot: RAM, registry and pins start afresh, flash stays *)

Restart ==
  /\ UNCHANGED timerVars
  /\ activeSchedules' = ZeroState
  /\ Alarm' = EmptyRegistry(Cardinality(DOMAIN Alarm))
  /\ updated' = TRUE
  /\ pc' = "delay"
  /\ firstRun' = TRUE
  /\ dstOffsetInSeconds' = 0
  /\ timeOffset' = utcOffsetInSeconds + 0
  /\ sysTimeOffset' = 0
  /\ dayPin' = 0
  /\ nightPin' = 0
  /\ response' = 0
  /\ lastFired' = dtINVALID_ALARM_ID
  /\ UNCHANGED <<weekdayNow, hourNow, eeprom, commitFailures>>

Next ==
  \/ TimePasses
  \/ startDay
  \/ endDay
  \/ startNight
  \/ endNight
  \/ AlarmDelayReturns
  \/ FirstRunBlock
  \/ PeriodicBlock
  \/ PeriodicNotDue
  \/ NoRequest
  \/ handlePostSchedule
  \/ Restart

Spec == Init /\ [][Next]_vars

SpecSmallPool == InitSmallPool /\ [][Next]_vars

(* One observed minute in which schedules with arbitrary valid times are
   submitted: the clock stands still, the requests come from TimeRequests *)

handlePostTimes == \E req \in TimeRequests : handlePost(req)

NextRoundTrip ==
  \/ startDay
  \/ endDay
  \/ startNight
  \/ endNight
  \/ AlarmDelayReturns
  \/ FirstRunBlock
  \/ PeriodicNotDue
  \/ NoRequest
  \/ handlePostTimes

\* the minute observed: a Monday, 00:00
InitRoundTrip == Init /\ weekdayNow = dowMonday /\ hourNow = 0

SpecRoundTrip == InitRoundTrip /\ [][NextRoundTrip]_vars

(* Submissions whose weekend day start does not read as a time of day *)

\* the weekend override of ReqWeekend with weekendDayStart = "-1:00"
ReqMinusOne == ("weekendDayStart" :> <<"-", "1", ":", "0", "0">>) @@ ReqWeekend

handlePostSentinel == \E req \in {ReqRegular, ReqWeekend, ReqMinusOne} : handlePost(req)

NextSentinel ==
  \/ TimePasses
  \/ startDay
  \/ endDay
  \/ startNight
  \/ endNight
  \/ AlarmDelayReturns
  \/ FirstRunBlock
  \/ PeriodicBlock
  \/ PeriodicNotDue
  \/ NoRequest
  \/ handlePostSentinel
  \/ Restart

SpecSentinel == InitRoundTrip /\ [][NextSentinel]_vars

(* One valid schedule is installed and then left in force while the loop
   keeps running and the clock keeps advancing: loop() is called again and
   again by the core (weak fairness of each of its steps), and every
   observed minute is followed by a next one (strong fairness of
   TimePasses, which is enabled only while the loop waits in Alarm.delay) *)

\* a valid schedule is submitted while none is installed
handlePostInstall ==
  /\ ~activeSchedules.initialized
  /\ \E req \in {ReqRegular, ReqWeekend} : handlePost(req)

NextLive ==
  \/ TimePasses
  \/ startDay
  \/ endDay
  \/ startNight
  \/ endNight
  \/ AlarmDelayReturns
  \/ FirstRunBlock
  \/ PeriodicBlock
  \/ PeriodicNotDue
  \/ NoRequest
  \/ handlePostInstall

SpecLive ==
  /\ Init
  /\ [][NextLive]_vars
  /\ SF_vars(TimePasses)
  /\ WF_vars(startDay \/ endDay \/ startNight \/ endNight)
  /\ WF_vars(AlarmDelayReturns)
  /\ WF_vars(FirstRunBlock)
  /\ WF_vars(PeriodicBlock \/ PeriodicNotDue)
  /\ WF_vars(NoRequest \/ handlePostInstall)

----------------------------------------------------------------------------
(* loop(): the interval test of the periodic block, on the unsigned 32-bit
   millisecond counter.  A counter value is kept as <<high, low>>, two
   16-bit halves, and the arithmetic is done half by half *)

\* 2^16: an unsigned long is two halves of 16 bits
Half == 65536

\* const long interval
interval == 60000

\* loop() iterations timed in one run of the model
MaxIterations == 5

\* milliseconds one loop() iteration can take: Alarm.delay(50) alone, or
\* with a handler, a resync or a stalled network call on top
IterationMillis == {50, 29950, 30000, 60000, 70000}

\* unsigned long + n, modulo 2^32 (0 <= n < 2^31 - 2^16)
add32(a, n) ==
  <<(a[1] + ((a[2] + n) \div Half)) % Half, (a[2] + n) % Half>>

\* unsigned long - unsigned long, modulo 2^32
sub32(a, b) ==
  <<(a[1] - b[1] - (IF a[2] < b[2] THEN 1 ELSE 0) + 2 * Half) % Half,
    (a[2] - b[2] + Half) % Half>>

\* unsigned a >= b
geq32(a, b) == a[1] > b[1] \/ (a[1] = b[1] /\ a[2] >= b[2])

\* the long n converted to unsigned long (0 <= n)
toU32(n) == <<n \div Half, n % Half>>

\* an interval test that adds the interval to the time of the previous run
intervalElapsed_addInterval(now, previous) ==
  geq32(now, add32(previous, interval))

\* currentMillis - previousMillis >= interval
intervalElapsed(now, previous) == geq32(sub32(now, previous), toU32(interval))

\* counter values at which the periodic block has just run: at boot (0),
\* 536 ms before 2^31, 70000 ms and 60000 ms before the wrap at 2^32
MillisStarts == {<<0, 0>>, <<32767, 65000>>, <<65534, 61072>>, <<65535, 5536>>}

InitMillis ==
  /\ InitEngine(dtNBR_ALARMS)
  /\ weekdayNow = dowMonday
  /\ hourNow = 0
  /\ previousMillis \in MillisStarts
  /\ currentMillis = previousMillis
  /\ sinceRun = 0
  /\ iterations = 0

\* one more loop() iteration comes to line 194 and reads millis()
readMillis ==
  /\ pc = "delay"
  /\ iterations < MaxIterations
  /\ \E d \in IterationMillis :
       /\ currentMillis' = add32(currentMillis, d)
       /\ sinceRun' = sinceRun + d
  /\ iterations' = iterations + 1
  /\ pc' = "periodic"
  /\ UNCHANGED <<activeSchedules, Alarm, weekdayNow, hourNow, updated, firstRun,
                 dstOffsetInSeconds, timeOffset, sysTimeOffset, eeprom, dayPin,
                 nightPin, commitFailures, response, lastFired, previousMillis>>

\* the test succeeds: "Save last run" and the periodic block is entered
intervalRuns ==
  /\ pc = "periodic"
  /\ intervalElapsed(currentMillis, previousMillis)
  /\ previousMillis' = currentMillis
  /\ sinceRun' = 0
  /\ pc' = "delay"
  /\ UNCHANGED <<activeSchedules, Alarm, weekdayNow, hourNow, updated, firstRun,
                 dstOffsetInSeconds, timeOffset, sysTimeOffset, eeprom, dayPin,
                 nightPin, commitFailures, response, lastFired, currentMillis,
                 iterations>>

\* the test fails: the periodic block is skipped in this iteration
intervalSkips ==
  /\ pc = "periodic"
  /\ ~intervalElapsed(currentMillis, previousMillis)
  /\ pc' = "delay"
  /\ UNCHANGED <<activeSchedules, Alarm, weekdayNow, hourNow, updated, firstRun,
                 dstOffsetInSeconds, timeOffset, sysTimeOffset, eeprom, dayPin,
                 nightPin, commitFailures, response, lastFired, timerVars>>

NextMillis ==
  \/ readMillis
  \/ intervalRuns
  \/ intervalSkips

SpecMillis == InitMillis /\ [][NextMillis]_vars

----------------------------------------------------------------------------
(* The earlier single-array version (v1.0.0): one timerIds array, four    *)
(* alarms for each day of the week. Only the schedule path is modelled:   *)
(* the first-run restore, POST /time and a restart. The variables of the  *)
(* clock, the pins and the interval timer are not used and never change.  *)

timerIdsSize == 28             \* int timerIds[28]
LargePool == 32                \* capacity of a registry built to hold 28 alarms

ScheduleV1(s, e) == [start |-> s, end |-> e]

\* the global ScheduleContainer, zero-initialised: empty Strings, zero ints
ZeroScheduleContainer ==
  [persistedInEEPROM |-> FALSE, initialized |-> FALSE, dstActive |-> FALSE,
   weekDay |-> ScheduleV1(<<>>, <<>>), weekNight |-> ScheduleV1(<<>>, <<>>),
   weekendDay |-> ScheduleV1(<<>>, <<>>),
   weekendNight |-> ScheduleV1(<<>>, <<>>),
   timerIds |-> [i \in 0..(timerIdsSize - 1) |-> 0],
   dayIntensity |-> 0, nightIntensity |-> 0, usedTimers |-> 0]

\* timerIds[k] = v; a write past the end of the array shows as a new index
storeTimerId(timerIds, k, v) == (k :> v) @@ timerIds

\* one "timerIds[usedTimers++] = Alarm.alarmRepeat(dow, hh, mm, 0, handler)"
\* on c = [st, reg, usedTimers]
allocTimer(c, dow, s, handler) ==
  Then(alarmRepeat(c.reg, dow, toInt(substring(s, 0, 2)),
                   toInt(substringFrom(s, 3)), handler), LAMBDA r :
    [st |-> [c.st EXCEPT
               !.timerIds = storeTimerId(c.st.timerIds, c.usedTimers, r.id)],
     reg |-> r.reg,
     usedTimers |-> c.usedTimers + 1])

\* the four alarms of day i, from one day Schedule and one night Schedule
fourAlarms(c, i, day, night) ==
  Then(allocTimer(c, i, day.start, "startDay"), LAMBDA c1 :
  Then(allocTimer(c1, i, day.end, "endDay"), LAMBDA c2 :
  Then(allocTimer(c2, i, night.start, "startNight"), LAMBDA c3 :
  allocTimer(c3, i, night.end, "endNight"))))

\* for (int i = 1; i <= 7; i++): weekend times on Sunday (1) and Saturday (7)
RECURSIVE setAlarmsLoop(_, _, _)
setAlarmsLoop(c, i, weekendActive) ==
  IF i > 7 THEN c
  ELSE IF weekendActive /\ (i = 1 \/ i = 7)
  THEN Then(fourAlarms(c, i, c.st.weekendDay, c.st.weekendNight), LAMBDA d :
         setAlarmsLoop(d, i + 1, weekendActive))
  ELSE Then(fourAlarms(c, i, c.st.weekDay, c.st.weekNight), LAMBDA d :
         setAlarmsLoop(d, i + 1, weekendActive))

setAlarmsV1_ignoresWeekend(st, A, weekendActive) ==
  Then(setAlarmsLoop([st |-> st, reg |-> A, usedTimers |-> 0], 1, FALSE),
       LAMBDA c : [st |-> [c.st EXCEPT !.usedTimers = c.usedTimers],
                   reg |-> c.reg])

\* setAlarms(weekendActive): 28 allocations, then usedTimers is recorded
setAlarmsV1(st, A, weekendActive) ==
  Then(setAlarmsLoop([st |-> st, reg |-> A, usedTimers |-> 0], 1,
                     weekendActive),
       LAMBDA c : [st |-> [c.st EXCEPT !.usedTimers = c.usedTimers],
                   reg |-> c.reg])

\* clearOldTimers(timerIds, usedTimers): Alarm.free(timerIds[i]), i < usedTimers
RECURSIVE clearOldTimersV1(_, _, _, _)
clearOldTimersV1(A, timerIds, usedTimers, i) ==
  IF i >= usedTimers THEN A
  ELSE Then(free(A, timerIds[i]), LAMBDA a :
         clearOldTimersV1(a, timerIds, usedTimers, i + 1))

\* the arguments of setSchedule: the four regular times, dst, the four
\* weekend times (empty Strings by default)
ScheduleArgs(ns, ne, ds, de, dst, wds, wde, wns, wne) ==
  [nightStart |-> ns, nightEnd |-> ne, dayStart |-> ds, dayEnd |-> de,
   dst |-> dst, weekendDayStart |-> wds, weekendDayEnd |-> wde,
   weekendNightStart |-> wns, weekendNightEnd |-> wne]

\* setSchedule(...): tear down the recorded timers, store the times, set alarms
setScheduleV1(st, A, a) ==
  Then(IF st.initialized
       THEN clearOldTimersV1(A, st.timerIds, st.usedTimers, 0)
       ELSE A, LAMBDA cleared :
  Then([st EXCEPT !.dstActive = a.dst, !.persistedInEEPROM = FALSE,
                  !.weekDay = ScheduleV1(a.dayStart, a.dayEnd),
                  !.weekNight = ScheduleV1(a.nightStart, a.nightEnd)],
       LAMBDA s1 :
  Then(IF ~(a.weekendDayStart = <<>> \/ a.weekendDayEnd = <<>>
            \/ a.weekendNightStart = <<>> \/ a.weekendNightEnd = <<>>)
       THEN setAlarmsV1(
              [s1 EXCEPT
                 !.weekendDay = ScheduleV1(a.weekendDayStart, a.weekendDayEnd),
                 !.weekendNight =
                    ScheduleV1(a.weekendNightStart, a.weekendNightEnd)],
              cleared, TRUE)
       ELSE setAlarmsV1(
              [s1 EXCEPT !.weekendDay = ScheduleV1(<<>>, <<>>),
                         !.weekendNight = ScheduleV1(<<>>, <<>>)],
              cleared, FALSE),
       LAMBDA set :
    [st |-> [set.st EXCEPT !.initialized = TRUE],
     reg |-> set.reg,
     dstOffsetInSeconds |-> IF a.dst THEN 3600 ELSE 0])))

\* the arguments handlePostSchedule hands to setSchedule
postArgs(req) ==
  IF serverHasOptionalArgs(req)
  THEN ScheduleArgs(arg(req, "nightStart"), arg(req, "nightEnd"),
                    arg(req, "dayStart"), arg(req, "dayEnd"),
                    hasArg(req, "dst") /\ arg(req, "dst") = <<"o", "n">>,
                    arg(req, "weekendDayStart"), arg(req, "weekendDayEnd"),
                    arg(req, "weekendNightStart"), arg(req, "weekendNightEnd"))
  ELSE ScheduleArgs(arg(req, "nightStart"), arg(req, "nightEnd"),
                    arg(req, "dayStart"), arg(req, "dayEnd"),
                    hasArg(req, "dst") /\ arg(req, "dst") = <<"o", "n">>,
                    <<>>, <<>>, <<>>, <<>>)

\* saveSettings(eepromAdress, activeSchedules)
saveSettingsV1(st, flash, saveOk) ==
  [st |-> [st EXCEPT !.persistedInEEPROM = saveOk],
   flash |-> IF saveOk THEN [st EXCEPT !.persistedInEEPROM = TRUE] ELSE flash]

\* the status handlePostSchedule answers with
postStatusV1(req) ==
  IF ~hasArg(req, "gatekeeper") \/ arg(req, "gatekeeper") = <<>> THEN 400
  ELSE IF arg(req, "gatekeeper") # superSecretPassword THEN 401
  ELSE IF serverHasRequiredArgs(req) THEN 200
  ELSE 400

unusedV1 == <<weekdayNow, hourNow, updated, pc, sysTimeOffset, dayPin,
              nightPin, lastFired, timerVars>>

\* a time the weekend of which differs from ReqWeekend's
ReqWeekendLate ==
  Regular(2, LastHour, 0, 1, <<"5", "0">>, <<"1", "0">>)
    @@ Weekend(1, 2, LastHour, 0)

RequestsV1 ==
  {ReqRegular, ReqWeekend, ReqWeekendLate, ReqPartialWeekend, ReqWrongKey,
   ReqNoKey, ReqNoDayEnd}

\* POST /time, served by handleClient once the first-run block has run
handlePostScheduleV1(req) ==
  /\ ~firstRun
  /\ response' = postStatusV1(req)
  /\ IF postStatusV1(req) = 200
     THEN \E saveOk \in BOOLEAN :
          \E set \in {setScheduleV1(
                        [activeSchedules EXCEPT
                           !.nightIntensity = toInt(arg(req, "nightIntensity")),
                           !.dayIntensity = toInt(arg(req, "dayIntensity"))],
                        Alarm, postArgs(req))} :
          \E saved \in {saveSettingsV1(set.st, eeprom, saveOk)} :
            /\ saveOk \/ commitFailures < MaxCommitFailures
            /\ commitFailures' = IF saveOk THEN commitFailures
                                 ELSE commitFailures + 1
            /\ activeSchedules' = saved.st
            /\ eeprom' = saved.flash
            /\ Alarm' = set.reg
            /\ dstOffsetInSeconds' = set.dstOffsetInSeconds
            /\ timeOffset' = utcOffsetInSeconds + set.dstOffsetInSeconds
     ELSE UNCHANGED <<activeSchedules, Alarm, eeprom, commitFailures,
                      dstOffsetInSeconds, timeOffset>>
  /\ UNCHANGED <<firstRun, unusedV1>>

postScheduleV1 == \E req \in RequestsV1 : handlePostScheduleV1(req)

\* A String read back from flash is the bytes of a String object written in
\* an earlier run: what it holds depends on the build, here either the text
\* that was saved or nothing.
restoredString(s) == {s, <<>>}

restoredSchedule(x) ==
  {ScheduleV1(s, e) : s \in restoredString(x.start),
                      e \in restoredString(x.end)}

\* EEPROM.get(eepromAdress, savedSchedule)
restoredContainers(flash) ==
  {[flash EXCEPT !.weekDay = wd, !.weekNight = wn, !.weekendDay = ed,
                 !.weekendNight = en] :
     wd \in restoredSchedule(flash.weekDay),
     wn \in restoredSchedule(flash.weekNight),
     ed \in restoredSchedule(flash.weekendDay),
     en \in restoredSchedule(flash.weekendNight)}

\* the first loop() iteration: readSavedSettings, then setSchedule with the
\* restored times when the snapshot is flagged persisted
firstRunV1 ==
  /\ firstRun
  /\ firstRun' = FALSE
  /\ IF eeprom.persistedInEEPROM
     THEN \E savedSchedule \in restoredContainers(eeprom) :
          \E set \in {setScheduleV1(savedSchedule, Alarm,
                        ScheduleArgs(savedSchedule.weekNight.start,
                                     savedSchedule.weekNight.end,
                                     savedSchedule.weekDay.start,
                                     savedSchedule.weekDay.end,
                                     savedSchedule.dstActive,
                                     savedSchedule.weekendDay.start,
                                     savedSchedule.weekendDay.end,
                                     savedSchedule.weekendNight.start,
                                     savedSchedule.weekendNight.end))} :
            /\ activeSchedules' = set.st
            /\ Alarm' = set.reg
            /\ dstOffsetInSeconds' = set.dstOffsetInSeconds
            /\ timeOffset' = utcOffsetInSeconds + set.dstOffsetInSeconds
     ELSE UNCHANGED <<activeSchedules, Alarm, dstOffsetInSeconds, timeOffset>>
  /\ UNCHANGED <<eeprom, commitFailures, response, unusedV1>>

\* power cycle: RAM and the registry are lost, flash is kept
RestartV1 ==
  /\ activeSchedules' = ZeroScheduleContainer
  /\ Alarm' = EmptyRegistry(Cardinality(DOMAIN Alarm))
  /\ firstRun' = TRUE
  /\ dstOffsetInSeconds' = 0
  /\ timeOffset' = utcOffsetInSeconds + 0
  /\ response' = 0
  /\ UNCHANGED <<eeprom, commitFailures, unusedV1>>

InitV1 ==
  /\ activeSchedules = ZeroScheduleContainer
  /\ Alarm \in {EmptyRegistry(dtNBR_ALARMS), EmptyRegistry(LargePool)}
  /\ firstRun = TRUE
  /\ dstOffsetInSeconds = 0
  /\ timeOffset = utcOffsetInSeconds + 0
  /\ eeprom = ZeroScheduleContainer
  /\ commitFailures = 0
  /\ response = 0
  /\ weekdayNow = dowMonday
  /\ hourNow = 0
  /\ updated = TRUE
  /\ pc = "delay"
  /\ sysTimeOffset = 0
  /\ dayPin = 0
  /\ nightPin = 0
  /\ lastFired = dtINVALID_ALARM_ID
  /\ currentMillis = <<0, 0>>
  /\ previousMillis = <<0, 0>>
  /\ sinceRun = 0
  /\ iterations = 0

NextV1 ==
  \/ firstRunV1
  \/ postScheduleV1
  \/ RestartV1

SpecV1 == InitV1 /\ [][NextV1]_vars

----------------------------------------------------------------------------
(* Properties *)

\* a schedule has been installed by setSchedule
Installed == activeSchedules.initialized

\* the installed schedule carries a weekend override
weekendConfigured == activeSchedules.weekendDay.startHour # -1

\* the handles recorded for the four regular alarms
regularHandles ==
  {activeSchedules.day.timerIds[0], activeSchedules.day.timerIds[1],
   activeSchedules.night.timerIds[0], activeSchedules.night.timerIds[1]}

\* the handles recorded for the eleven weekend alarms (none without an override)
weekendHandles ==
  IF weekendConfigured
  THEN {activeSchedules.weekendDay.timerIds[i] : i \in 0..5}
         \cup {activeSchedules.weekendNight.timerIds[i] : i \in 0..4}
  ELSE {}

armed(id) == isAllocated(Alarm, id) /\ Alarm[id].isEnabled

isWeekendDay(dow) == dow \in {dowFriday, dowSaturday, dowSunday}

\* the flash holds a snapshot of the other schedule class that the request
\* just answered replaced in RAM (the commit of the new one failed)
replacedStored(hadWeekend) ==
  /\ response = 200
  /\ ~activeSchedules.persistedInEEPROM
  /\ eeprom.persistedInEEPROM
  /\ (eeprom.weekendDay.startHour # -1) = hadWeekend

\* C1: whenever a schedule is installed, the registry holds exactly the
\* slots of that schedule: 15 with a weekend override, 4 without, whatever
\* schedule was installed before.
C1_SlotCount ==
  Installed =>
    Cardinality(LiveIds(Alarm)) = IF weekendConfigured THEN 15 ELSE 4

\* C1 witness: a regular-only schedule has just replaced a weekend-override
\* schedule and 4 slots are live.
C1_WeekendReplacedByRegular ==
  /\ replacedStored(TRUE)
  /\ ~weekendConfigured
  /\ Cardinality(LiveIds(Alarm)) = 4

timeFields ==
  {"dayStart", "dayEnd", "nightStart", "nightEnd", "weekendDayStart",
   "weekendDayEnd", "weekendNightStart", "weekendNightEnd"}

weekendFields ==
  {"weekendDayStart", "weekendDayEnd", "weekendNightStart", "weekendNightEnd"}

\* a submitted time of day outside 00:00 .. 23:59
hasInvalidTime(req) ==
  \E name \in timeFields \cap DOMAIN req :
    \/ toInt(substring(req[name], 0, 2)) \notin 0..23
    \/ toInt(substringFrom(req[name], 3)) \notin 0..59

\* some, but not all four, weekend times supplied
hasPartialWeekend(req) ==
  /\ \E name \in weekendFields : present(req, name)
  /\ \E name \in weekendFields : ~present(req, name)

\* C2: a submission carrying an out-of-range time of day is refused and has
\* no effect: the schedule in RAM, the registry and the flash stay as they were.
C2_InvalidTimeRejected ==
  [][\A req \in Requests :
       (hasInvalidTime(req) /\ handlePost(req)) =>
         (response' # 200 /\ UNCHANGED <<activeSchedules, Alarm, eeprom>>)]_vars

\* C3: at every alarm service on a Saturday with a weekend override
\* configured, the four regular alarms are suspended and none of them has
\* fired, while the weekend alarms are armed.
C3_SaturdayRegularSuspended ==
  (pc = "delay" /\ weekdayNow = dowSaturday /\ Installed /\ weekendConfigured) =>
    /\ \A id \in regularHandles : ~armed(id)
    /\ lastFired \notin regularHandles
    /\ \A id \in weekendHandles : armed(id)

\* C4: at every alarm service on a Monday with a weekend override
\* configured, the four regular alarms are armed and the eleven weekend
\* slots are still allocated.
C4_MondayRegularArmed ==
  (pc = "delay" /\ weekdayNow = dowMonday /\ Installed /\ weekendConfigured) =>
    /\ \A id \in regularHandles : armed(id)
    /\ Cardinality(weekendHandles) = 11
    /\ weekendHandles \subseteq LiveIds(Alarm)

\* C5: one schedule class governs a day: an alarm that fires on Friday,
\* Saturday or Sunday under a weekend override is a weekend alarm; an alarm
\* that fires on any other day, or without an override, is a regular alarm.
C5_OneClassPerDay ==
  (lastFired # dtINVALID_ALARM_ID /\ Installed) =>
    IF weekendConfigured /\ isWeekendDay(weekdayNow)
    THEN lastFired \in weekendHandles
    ELSE lastFired \in regularHandles

\* the hour at which the regular schedule switches for the given handler
regularHour(handler) ==
  CASE handler = "startDay" -> activeSchedules.day.startHour
    [] handler = "endDay" -> activeSchedules.day.endHour
    [] handler = "startNight" -> activeSchedules.night.startHour
    [] handler = "endNight" -> activeSchedules.night.endHour

\* C6: a weekend schedule overrides Saturday and Sunday only: every switch
\* that happens on Monday through Friday happens at the regular schedule's
\* time for that switch.
C6_WeekdaysUseRegularTimes ==
  (/\ lastFired # dtINVALID_ALARM_ID
   /\ Installed /\ weekendConfigured
   /\ weekdayNow \in dowMonday..dowFriday) =>
    hourNow = regularHour(Alarm[lastFired].handler)

\* C7: without a weekend override the four regular alarms are allocated and
\* armed in every reachable state, on every day of the week.
C7_RegularAlwaysArmed ==
  (Installed /\ ~weekendConfigured) => \A id \in regularHandles : armed(id)

\* C7 witness: on Friday, Saturday or Sunday a regular-only schedule has
\* just replaced a weekend-override schedule, and its alarms are armed.
C7_ReplacedOnWeekendDay ==
  /\ replacedStored(TRUE)
  /\ ~weekendConfigured
  /\ isWeekendDay(weekdayNow)
  /\ \A id \in regularHandles : armed(id)

\* C8: the live slots never exceed the capacity of the registry, and no
\* allocation of an installed schedule found the pool full: the old slots
\* were released before the new ones were allocated, so every recorded
\* handle is a valid one and the handles are pairwise distinct.
C8_ReleaseBeforeAllocate ==
  /\ Cardinality(LiveIds(Alarm)) <= dtNBR_ALARMS
  /\ Installed =>
       /\ dtINVALID_ALARM_ID \notin (regularHandles \cup weekendHandles)
       /\ Cardinality(regularHandles \cup weekendHandles)
            = IF weekendConfigured THEN 15 ELSE 4

\* C8 witness: a weekend-override schedule has just replaced another
\* weekend-override schedule (15 slots released, 15 allocated, capacity 20).
C8_WeekendReplacedByWeekend ==
  /\ replacedStored(TRUE)
  /\ weekendConfigured
  /\ Cardinality(LiveIds(Alarm)) = 15

\* C9: no schedule is left installed with only part of its alarms: every
\* handle recorded for the installed schedule is a live slot.
C9_NoPartialInstall ==
  Installed => (regularHandles \cup weekendHandles) \subseteq LiveIds(Alarm)

\* C10: a submission supplying some but not all four weekend times is
\* refused and the previous schedule stays as it was.
C10_PartialWeekendRejected ==
  [][\A req \in Requests :
       (hasPartialWeekend(req) /\ handlePost(req)) =>
         (response' # 200 /\ UNCHANGED <<activeSchedules, Alarm>>)]_vars

\* C11: for every valid schedule, right after it is accepted the day and
\* night start and end hour and minute held in RAM are the submitted ones,
\* and the status page prints them back as they were submitted.
C11_RoundTrip ==
  [][\A h \in SampleHours, m \in SampleMinutes :
       (pc = "client" /\ response' = 200 /\ handlePost(ReqTimes(h, m))) =>
         /\ activeSchedules'.day.startHour = h
         /\ activeSchedules'.day.startMinute = m
         /\ activeSchedules'.day.endHour = 23 - h
         /\ activeSchedules'.day.endMinute = 59 - m
         /\ activeSchedules'.night.startHour = 23 - h
         /\ activeSchedules'.night.startMinute = 59 - m
         /\ activeSchedules'.night.endHour = h
         /\ activeSchedules'.night.endMinute = m
         /\ \A f \in {"dayStart", "dayEnd", "nightStart", "nightEnd"} :
              getFormattedHourMinuteConcatenation(activeSchedules', f)
                = ReqTimes(h, m)[f]]_vars

\* C11 witness: the schedule day 09:10 - 14:49, night 14:49 - 09:10 has
\* just been accepted and is printed back.
C11_Accepted0910 ==
  /\ response = 200
  /\ activeSchedules.day.startHour = 9
  /\ activeSchedules.day.endMinute = 49
  /\ getFormattedHourMinuteConcatenation(activeSchedules, "dayStart")
       = <<"0", "9", ":", "1", "0">>
  /\ getFormattedHourMinuteConcatenation(activeSchedules, "nightStart")
       = <<"1", "4", ":", "4", "9">>

\* the third weekend night segment: from the regular night start on Sunday
\* to the regular night end on Monday (a night that starts in the evening)
inThirdSegment ==
  \/ weekdayNow = dowSunday /\ hourNow >= activeSchedules.night.startHour
  \/ weekdayNow = dowMonday /\ hourNow <= activeSchedules.night.endHour

\* C12: with a weekend override, nightActive switched on by Sunday's night
\* start stays true until the regular night-end alarm fires on Monday at
\* the regular night end time; every night end fired on Monday is that
\* regular alarm and leaves nightActive false; once Monday's alarms of that
\* minute are serviced nightActive is false.
C12_ThirdSegment ==
  [][/\ (/\ Installed /\ weekendConfigured /\ Installed' /\ inThirdSegment
          /\ activeSchedules.currentState.nightActive
          /\ ~activeSchedules'.currentState.nightActive) =>
            (/\ weekdayNow' = dowMonday
             /\ hourNow' = activeSchedules.night.endHour
             /\ lastFired' = activeSchedules.night.timerIds[1])
     /\ (/\ Installed' /\ weekendConfigured' /\ weekdayNow' = dowMonday
          /\ lastFired' # dtINVALID_ALARM_ID
          /\ Alarm'[lastFired'].handler = "endNight") =>
            (/\ lastFired' = activeSchedules'.night.timerIds[1]
             /\ hourNow' = activeSchedules'.night.endHour
             /\ ~activeSchedules'.currentState.nightActive)
     /\ (/\ Installed' /\ weekendConfigured' /\ weekdayNow' = dowMonday
          /\ hourNow' = activeSchedules'.night.endHour
          /\ NoneDue') =>
            ~activeSchedules'.currentState.nightActive]_vars

\* C12 witness: on Monday at the regular night end the regular night-end
\* alarm has just fired and switched off a night that was on (the snapshot
\* stored at its start still says so, the commit of this firing failed).
C12_MondayRegularNightEnd ==
  /\ Installed /\ weekendConfigured
  /\ weekdayNow = dowMonday
  /\ hourNow = activeSchedules.night.endHour
  /\ lastFired = activeSchedules.night.timerIds[1]
  /\ ~activeSchedules.currentState.nightActive
  /\ ~activeSchedules.persistedInEEPROM
  /\ eeprom.persistedInEEPROM
  /\ eeprom.currentState.nightActive
  /\ eeprom.weekendDay.startHour # -1

\* C13: regular-only schedule, day start and night end on the same minute
\* T, intensities 80 and 30: when the periodic block runs in minute T after
\* the alarms of T were serviced, dayActive is true and the day pin is
\* driven at 818, nightActive is false and the night pin is low.
C13_TickAtT ==
  [][(/\ pc = "periodic" /\ ~updated /\ pc' = "client"
      /\ Installed /\ ~weekendConfigured
      /\ hourNow = activeSchedules.day.startHour
      /\ hourNow = activeSchedules.night.endHour
      /\ activeSchedules.dayIntensity = 80
      /\ activeSchedules.nightIntensity = 30
      /\ Alarm[activeSchedules.day.timerIds[0]].fired
      /\ Alarm[activeSchedules.night.timerIds[1]].fired) =>
        (/\ activeSchedules'.currentState.dayActive
         /\ ~activeSchedules'.currentState.nightActive
         /\ dayPin' = 818
         /\ nightPin' = 0)]_vars

\* C13 witness: a weekday at T, the periodic block has driven the day pin
\* at 818 and the night pin low; the night was on before (the snapshot
\* stored by the day start still says so, the commit of the night end
\* failed).
C13_DayOn818 ==
  /\ Installed /\ ~weekendConfigured
  /\ weekdayNow = dowMonday + 1
  /\ hourNow = activeSchedules.day.startHour
  /\ hourNow = activeSchedules.night.endHour
  /\ pc = "client" /\ updated
  /\ activeSchedules.currentState.dayActive
  /\ ~activeSchedules.currentState.nightActive
  /\ dayPin = 818 /\ nightPin = 0
  /\ ~activeSchedules.persistedInEEPROM
  /\ eeprom.persistedInEEPROM
  /\ eeprom.currentState.dayActive /\ eeprom.currentState.nightActive

\* the step is an alarm callback and the output state is what it leaves
firedStep ==
  /\ lastFired' # dtINVALID_ALARM_ID
  /\ activeSchedules'.currentState
       = callback(Alarm[lastFired'].handler, activeSchedules).currentState

\* the step is the power cycle
restartStep == ~firstRun /\ firstRun'

\* C14 (as stated): outputState changes only when an alarm fires.
C14_OnlyAlarmsChangeOutputState ==
  [][(activeSchedules'.currentState # activeSchedules.currentState /\ ~restartStep)
       => firedStep]_vars

\* C14 (amended): outputState changes only when an alarm fires (a start
\* alarm sets its flag, an end alarm clears it), when the first-run block
\* loads the stored snapshot, or when a power cycle zeroes the RAM;
\* setSchedule, the weekend toggle, the periodic update and the output
\* derivation leave it unchanged.
C14_OutputStateFrame ==
  [][activeSchedules'.currentState # activeSchedules.currentState =>
       \/ firedStep
       \/ pc = "firstRun" /\ eeprom.persistedInEEPROM
            /\ activeSchedules'.currentState = eeprom.currentState
       \/ restartStep
            /\ activeSchedules'.currentState = ZeroState.currentState]_vars

\* C14 witness: a weekend-override schedule has just been accepted while
\* the day channel was on, and it is still on.
C14_AcceptedWhileDayOn ==
  /\ response = 200
  /\ weekendConfigured
  /\ activeSchedules.currentState.dayActive
  /\ ~activeSchedules.currentState.nightActive

\* C15: the persisted flag is true only if the last store-and-commit
\* succeeded and the state in RAM has not changed since: whenever the flag
\* is true the flash holds exactly the state in RAM, and a step whose
\* commit failed leaves the flag false.
C15_PersistedMeansStored ==
  [][/\ activeSchedules'.persistedInEEPROM => eeprom' = activeSchedules'
     /\ commitFailures' # commitFailures => ~activeSchedules'.persistedInEEPROM]_vars

\* C15 witness: an alarm has just changed the output state, the commit
\* succeeded and the flag is true.
C15_StoredAfterFiring ==
  /\ lastFired # dtINVALID_ALARM_ID
  /\ activeSchedules.persistedInEEPROM
  /\ activeSchedules.currentState.nightActive
  /\ eeprom = activeSchedules

\* C16: a failed commit is not fatal: the step ends with the state a
\* successful commit would have left in RAM, but for the flag, which is
\* false; the registry is the same, the flash is untouched; nothing retries
\* the write: the flash changes only in a callback or an accepted request.
C16_CommitFailureNonFatal ==
  [][/\ commitFailures' # commitFailures =>
          /\ commitFailures' = commitFailures + 1
          /\ eeprom' = eeprom
          /\ ~activeSchedules'.persistedInEEPROM
          /\ \/ /\ lastFired' # dtINVALID_ALARM_ID
                /\ activeSchedules' =
                     [callback(Alarm[lastFired'].handler, activeSchedules)
                        EXCEPT !.persistedInEEPROM = FALSE]
                /\ Alarm' = [Alarm EXCEPT ![lastFired'].fired = TRUE]
             \/ /\ response' = 200
                /\ \E req \in Requests :
                     /\ postStatus(req) = 200
                     /\ \E ok \in {acceptSchedule(activeSchedules, Alarm, eeprom, req, TRUE)} :
                          /\ activeSchedules' = [ok.st EXCEPT !.persistedInEEPROM = FALSE]
                          /\ Alarm' = ok.reg
     /\ eeprom' # eeprom => (lastFired' # dtINVALID_ALARM_ID \/ response' = 200)]_vars

\* C16 witness: the commit of an accepted weekend-override schedule has
\* just failed; the schedule is installed in RAM with all its alarms armed.
C16_CommitFailedOnPost ==
  /\ response = 200
  /\ commitFailures > 0
  /\ ~activeSchedules.persistedInEEPROM
  /\ Installed /\ weekendConfigured
  /\ eeprom # [activeSchedules EXCEPT !.persistedInEEPROM = TRUE]
  /\ \A id \in regularHandles \cup weekendHandles : armed(id)

\* the schedule times, weekend override, DST flag, intensities and output
\* state of a StateContainer
restoredFields(st) ==
  [day |-> <<st.day.startHour, st.day.startMinute, st.day.endHour, st.day.endMinute>>,
   night |-> <<st.night.startHour, st.night.startMinute,
               st.night.endHour, st.night.endMinute>>,
   weekend |-> IF st.weekendDay.startHour # -1
               THEN <<st.weekendDay.startHour, st.weekendDay.startMinute,
                      st.weekendDay.endHour, st.weekendDay.endMinute,
                      st.weekendNight.startHour, st.weekendNight.startMinute,
                      st.weekendNight.endHour, st.weekendNight.endMinute>>
               ELSE <<>>,
   dstActive |-> st.dstActive,
   dayIntensity |-> st.dayIntensity,
   nightIntensity |-> st.nightIntensity,
   currentState |-> st.currentState]

\* C17: the first loop iteration after a restart: with a stored snapshot,
\* the schedule times, weekend override, DST flag, intensities and output
\* state in RAM equal the snapshot and the alarms of that schedule are
\* installed in the fresh registry (4 or 15 slots, all armed); without one,
\* no alarm is installed and initialized stays false.
C17_RestartRecovery ==
  [][(pc = "firstRun" /\ pc' = "periodic") =>
       IF eeprom.persistedInEEPROM
       THEN /\ restoredFields(activeSchedules') = restoredFields(eeprom)
            /\ Installed'
            /\ dstOffsetInSeconds' = IF eeprom.dstActive THEN 3600 ELSE 0
            /\ LiveIds(Alarm') = regularHandles' \cup weekendHandles'
            /\ Cardinality(LiveIds(Alarm')) = IF weekendConfigured' THEN 15 ELSE 4
            /\ \A id \in LiveIds(Alarm') : Alarm'[id].isEnabled
       ELSE /\ ~Installed'
            /\ LiveIds(Alarm') = {}]_vars

\* C17 witness: after a restart the first-run block has just restored a
\* weekend-override schedule with the night channel on, 15 alarms live.
C17_RestoredWeekend ==
  /\ pc = "periodic" /\ updated /\ ~firstRun
  /\ Installed /\ weekendConfigured
  /\ ~activeSchedules.persistedInEEPROM
  /\ eeprom.persistedInEEPROM
  /\ restoredFields(activeSchedules) = restoredFields(eeprom)
  /\ activeSchedules.currentState.nightActive
  /\ nightPin > 0
  /\ Cardinality(LiveIds(Alarm)) = 15
  /\ \A id \in LiveIds(Alarm) : ~Alarm[id].fired

\* C18: a request with a missing or empty shared secret (400), a wrong
\* shared secret (401) or a missing required field (400) leaves the state
\* in RAM, the registry, the flash and the DST offset unchanged.
C18_UnauthenticatedNoEffect ==
  [][\A req \in {ReqNoKey, ReqEmptyKey, ReqWrongKey, ReqNoDayEnd} :
       (pc = "client" /\ response' # 0 /\ handlePost(req)) =>
         /\ response' = IF req = ReqWrongKey THEN 401 ELSE 400
         /\ UNCHANGED <<activeSchedules, Alarm, eeprom, dstOffsetInSeconds,
                         timeOffset, commitFailures>>]_vars

\* C18 witness: a request with a wrong shared secret has just been answered
\* 401 while a stored weekend-override schedule is installed.
C18_WrongKeyRejected ==
  /\ response = 401
  /\ Installed /\ weekendConfigured
  /\ activeSchedules.persistedInEEPROM
  /\ Cardinality(LiveIds(Alarm)) = 15

\* the schedule held in RAM: everything but the output state and the flag
scheduleOf(st) ==
  [st EXCEPT !.currentState = ZeroState.currentState, !.persistedInEEPROM = FALSE]

\* C19: a schedule change and an alarm firing are never interleaved: the
\* step that accepts a schedule runs no callback (no alarm is marked fired,
\* the output state is unchanged), leaves the clock alone and ends with
\* the whole schedule installed; the step that fires an alarm serves no
\* request and leaves the schedule and the allocation of slots unchanged.
C19_NoInterleaving ==
  [][/\ response' = 200 =>
          /\ lastFired' = dtINVALID_ALARM_ID
          /\ activeSchedules'.currentState = activeSchedules.currentState
          /\ \A id \in LiveIds(Alarm') : ~Alarm'[id].fired
          /\ UNCHANGED <<weekdayNow, hourNow, updated>>
          /\ Installed'
          /\ LiveIds(Alarm') = regularHandles' \cup weekendHandles'
          /\ activeSchedules'.persistedInEEPROM \/ commitFailures' = commitFailures + 1
     /\ lastFired' # dtINVALID_ALARM_ID =>
          /\ response' = 0
          /\ scheduleOf(activeSchedules') = scheduleOf(activeSchedules)
          /\ LiveIds(Alarm') = LiveIds(Alarm)]_vars

\* C19 witness: a weekend-override schedule has just been accepted in a
\* minute in which one of its alarms is due; the alarm has not run yet.
C19_AcceptedWithAlarmDue ==
  /\ response = 200
  /\ weekendConfigured
  /\ ~NoneDue
  /\ lastFired = dtINVALID_ALARM_ID

\* C20: once a schedule has been accepted, dayIntensity and nightIntensity
\* are integers in 1 .. 100.
C20_IntensityInRange ==
  Installed =>
    /\ activeSchedules.dayIntensity \in 1..100
    /\ activeSchedules.nightIntensity \in 1..100

\* the slot behind a handle is allocated with this trigger and this callback
slotIs(id, dow, h, m, handler) ==
  /\ isAllocated(Alarm, id)
  /\ Alarm[id].dow = dow
  /\ Alarm[id].hour = h
  /\ Alarm[id].minute = m
  /\ Alarm[id].handler = handler

\* the live slots bound to one day of the week and to one of two callbacks
boundSlots(handlers) ==
  {id \in LiveIds(Alarm) : Alarm[id].dow # dowAny /\ Alarm[id].handler \in handlers}

\* C21: with a weekend override installed there are exactly six weekend day
\* alarms: Friday start at the regular day start, Friday end at the weekend
\* day end, Saturday start and end at the weekend day times, Sunday start at
\* the weekend day start, Sunday end at the regular day end; the start
\* alarms call startDay, the end alarms endDay.
C21_WeekendDayAlarms ==
  (Installed /\ weekendConfigured) =>
    \E s \in {activeSchedules} : \E t \in {activeSchedules.weekendDay.timerIds} :
      /\ slotIs(t[0], dowFriday, s.day.startHour, s.day.startMinute, "startDay")
      /\ slotIs(t[1], dowFriday, s.weekendDay.endHour, s.weekendDay.endMinute, "endDay")
      /\ slotIs(t[2], dowSaturday, s.weekendDay.startHour, s.weekendDay.startMinute, "startDay")
      /\ slotIs(t[3], dowSaturday, s.weekendDay.endHour, s.weekendDay.endMinute, "endDay")
      /\ slotIs(t[4], dowSunday, s.weekendDay.startHour, s.weekendDay.startMinute, "startDay")
      /\ slotIs(t[5], dowSunday, s.day.endHour, s.day.endMinute, "endDay")
      /\ boundSlots({"startDay", "endDay"}) = {t[i] : i \in 0..5}
      /\ Cardinality({t[i] : i \in 0..5}) = 6

\* C21 witness: a schedule whose weekend day times differ from the regular
\* ones has just been accepted, and the Friday end alarm stands at the
\* weekend day end.
C21_AcceptedWeekendDay ==
  /\ response = 200
  /\ Installed
  /\ weekendConfigured
  /\ activeSchedules.weekendDay.startHour # activeSchedules.day.startHour
  /\ activeSchedules.weekendDay.endHour # activeSchedules.day.endHour
  /\ Alarm[activeSchedules.weekendDay.timerIds[1]].hour = activeSchedules.weekendDay.endHour

\* C22: with a weekend override installed there are exactly five weekend
\* night alarms: Friday start at the weekend night start, Saturday end at
\* the weekend night end, Saturday start at the weekend night start, Sunday
\* end at the weekend night end, Sunday start at the regular night start;
\* no weekend alarm ends the night that starts on Sunday.
C22_WeekendNightAlarms ==
  (Installed /\ weekendConfigured) =>
    \E s \in {activeSchedules} : \E t \in {activeSchedules.weekendNight.timerIds} :
      /\ slotIs(t[0], dowFriday, s.weekendNight.startHour, s.weekendNight.startMinute, "startNight")
      /\ slotIs(t[1], dowSaturday, s.weekendNight.endHour, s.weekendNight.endMinute, "endNight")
      /\ slotIs(t[2], dowSaturday, s.weekendNight.startHour, s.weekendNight.startMinute, "startNight")
      /\ slotIs(t[3], dowSunday, s.weekendNight.endHour, s.weekendNight.endMinute, "endNight")
      /\ slotIs(t[4], dowSunday, s.night.startHour, s.night.startMinute, "startNight")
      /\ boundSlots({"startNight", "endNight"}) = {t[i] : i \in 0..4}
      /\ Cardinality({t[i] : i \in 0..4}) = 5
      /\ \A id \in LiveIds(Alarm) :
           Alarm[id].handler = "endNight" => Alarm[id].dow # dowMonday

\* C22 witness: the schedule installed has a weekend night start other than
\* the regular one and its Sunday start alarm stands at the regular night
\* start, after that alarm has fired.
C22_SundayRegularNightStart ==
  /\ Installed
  /\ weekendConfigured
  /\ activeSchedules.weekendNight.startHour # activeSchedules.night.startHour
  /\ activeSchedules.weekendNight.endHour # activeSchedules.night.endHour
  /\ lastFired = activeSchedules.weekendNight.timerIds[4]
  /\ Alarm[lastFired].hour = activeSchedules.night.startHour

\* C23: every alarm callback ends with a persistence write: the commit either
\* fails (and is counted) or leaves in flash a snapshot flagged persisted
\* whose dayActive and nightActive equal the output state in RAM at the end
\* of the callback.
C23_CallbackPersistsOutputState ==
  [][lastFired' # dtINVALID_ALARM_ID =>
       \/ commitFailures' = commitFailures + 1
       \/ /\ commitFailures' = commitFailures
          /\ activeSchedules'.persistedInEEPROM
          /\ eeprom'.persistedInEEPROM
          /\ eeprom'.currentState = activeSchedules'.currentState]_vars

\* C23 witness: an endDay callback has just run, its commit succeeded, and
\* the stored snapshot has the day output off like the state in RAM.
C23_StoredAfterEndDay ==
  /\ lastFired # dtINVALID_ALARM_ID
  /\ Alarm[lastFired].handler = "endDay"
  /\ activeSchedules.persistedInEEPROM
  /\ ~activeSchedules.currentState.dayActive
  /\ eeprom.currentState = activeSchedules.currentState

\* the handles setSchedule hands to Alarm.free when it is entered with st
teardownHandles(st) ==
  IF st.initialized
  THEN {st.day.timerIds[0], st.day.timerIds[1],
        st.night.timerIds[0], st.night.timerIds[1]}
       \cup (IF st.weekendDay.startHour # -1
             THEN {st.weekendDay.timerIds[i] : i \in 0..5}
                    \cup {st.weekendNight.timerIds[i] : i \in 0..4}
             ELSE {})
  ELSE {}

\* C24 (as stated): whenever setSchedule is about to run, in the first-run
\* block or for a request, every handle its teardown releases is allocated
\* in the registry of this process; the first call of a process releases
\* none.
C24_TeardownOnlyLiveHandles ==
  /\ pc = "firstRun" =>
       teardownHandles(readSavedSettings(activeSchedules, eeprom,
                                         dstOffsetInSeconds).st) = {}
  /\ pc = "client" => teardownHandles(activeSchedules) \subseteq LiveIds(Alarm)

\* C24 (amended): until the first-run block has run, no schedule is
\* installed and the registry is empty, so the teardown of the restoring
\* setSchedule (which is handed the handles of the snapshot) releases no
\* slot; whenever a request can arrive, the handles the teardown would
\* release are exactly the live slots of this process's registry, none if no
\* schedule is installed.
C24_TeardownReleasesOwnSlots ==
  /\ firstRun => ~Installed /\ LiveIds(Alarm) = {}
  /\ pc = "client" => teardownHandles(activeSchedules) = LiveIds(Alarm)

\* C24 witness: a regular-only snapshot has been restored after a restart
\* (no commit has ever failed, yet the state in RAM is not flagged
\* persisted) and the four alarms of the restored schedule are live.
C24_RestoredRegular ==
  /\ commitFailures = 0
  /\ Installed
  /\ ~activeSchedules.persistedInEEPROM
  /\ eeprom.persistedInEEPROM
  /\ ~weekendConfigured
  /\ teardownHandles(eeprom) # {}
  /\ teardownHandles(activeSchedules) = LiveIds(Alarm)
  /\ Cardinality(LiveIds(Alarm)) = 4

\* C25: the alarms of the weekend override are armed in every state in which
\* they are allocated; the periodic toggle changes the enabled flag of the
\* four regular alarms only.
C25_WeekendAlarmsArmed ==
  [][/\ (Installed /\ weekendConfigured) => \A id \in weekendHandles : armed(id)
     /\ (pc = "periodic" /\ pc' = "client") =>
          \A id \in DOMAIN Alarm \ regularHandles : Alarm'[id] = Alarm[id]]_vars

\* C25 witness: on a Saturday the periodic block has suspended the four
\* regular alarms of a schedule with a weekend override, and its eleven
\* weekend alarms are armed.
C25_SaturdayWeekendArmed ==
  /\ Installed
  /\ weekendConfigured
  /\ weekdayNow = dowSaturday
  /\ pc = "client"
  /\ \A id \in regularHandles : isAllocated(Alarm, id) /\ ~Alarm[id].isEnabled
  /\ \A id \in weekendHandles : armed(id)
  /\ Cardinality(weekendHandles) = 11

\* C26: each time the outputs are derived (periodic block, first-run
\* restore), an active channel is driven at intensity * 1023 / 100
\* truncated, an inactive channel is driven off, and the duty cycle handed to
\* the driver lies within 0 .. 1023.
C26_DutyCycleInRange ==
  [][(dayPin' # dayPin \/ nightPin' # nightPin \/ (pc = "periodic" /\ ~updated))
       /\ Installed' /\ ~restartStep =>
       /\ dayPin' = IF activeSchedules'.currentState.dayActive
                    THEN (activeSchedules'.dayIntensity * 1023) \div 100 ELSE 0
       /\ nightPin' = IF activeSchedules'.currentState.nightActive
                      THEN (activeSchedules'.nightIntensity * 1023) \div 100 ELSE 0
       /\ dayPin' \in 0..1023
       /\ nightPin' \in 0..1023]_vars

\* the step runs setSchedule: an accepted request or a first-run restore
setScheduleStep ==
  \/ pc = "client" /\ response' = 200
  \/ pc = "firstRun" /\ Installed'

\* C27: in every state the DST offset is 3600 s if dstActive and 0 otherwise;
\* when setSchedule returns, the offset of the time client is
\* utcOffsetInSeconds + dstOffsetInSeconds, and the clock the alarms of that
\* call are placed against (the time last handed to setTime) includes that
\* same offset.
C27_OffsetInForceAtPlacement ==
  [][/\ dstOffsetInSeconds = IF activeSchedules.dstActive THEN 3600 ELSE 0
     /\ dstOffsetInSeconds' = IF activeSchedules'.dstActive THEN 3600 ELSE 0
     /\ setScheduleStep =>
          /\ timeOffset' = utcOffsetInSeconds + dstOffsetInSeconds'
          /\ sysTimeOffset' = timeOffset']_vars

\* C28: the state in RAM is overwritten, not merged: a schedule accepted
\* without weekend times leaves weekendDay and weekendNight unconfigured
\* (start hour -1) and no weekend alarm allocated, whatever was installed
\* before.
C28_OverwrittenNotMerged ==
  [][\A req \in Requests :
       (pc = "client" /\ response' = 200 /\ postStatus(req) = 200
          /\ ~serverHasOptionalArgs(req)
          /\ activeSchedules' = acceptSchedule(activeSchedules, Alarm, eeprom, req,
                                   activeSchedules'.persistedInEEPROM).st) =>
         /\ activeSchedules'.weekendDay.startHour = -1
         /\ activeSchedules'.weekendNight.startHour = -1
         /\ {id \in LiveIds(Alarm') : Alarm'[id].dow # dowAny} = {}
         /\ Cardinality(LiveIds(Alarm')) = 4]_vars

\* C28 witness: a schedule without weekend times and without DST has just
\* been accepted and stored while the system clock still carries the DST
\* offset of the weekend schedule it replaced; nothing of the weekend
\* override is left.
C28_RegularAfterWeekend ==
  /\ response = 200
  /\ sysTimeOffset = utcOffsetInSeconds + 3600
  /\ ~activeSchedules.dstActive
  /\ activeSchedules.persistedInEEPROM
  /\ activeSchedules.weekendDay.startHour = -1
  /\ activeSchedules.weekendNight.startHour = -1
  /\ eeprom.weekendDay.startHour = -1
  /\ LiveIds(Alarm) = regularHandles

\* the state setSchedule is entered with in the step about to be taken
enteredWith ==
  IF pc = "firstRun"
  THEN readSavedSettings(activeSchedules, eeprom, dstOffsetInSeconds).st
  ELSE activeSchedules

\* C29: the teardown of setSchedule releases only live slots recorded in the
\* schedule being replaced: an already-released handle, a stale handle of
\* the snapshot or the invalid handle of a failed allocation releases
\* nothing; and when setSchedule returns, every alarm allocated for the
\* schedule being installed is live under its recorded handle.
C29_TeardownSparesNewAlarms ==
  [][setScheduleStep =>
       /\ LiveIds(Alarm) \ LiveIds(setScheduleClear(enteredWith, Alarm))
            = teardownHandles(enteredWith) \cap LiveIds(Alarm)
       /\ \A id \in LiveIds(setScheduleClear(enteredWith, Alarm)) :
            setScheduleClear(enteredWith, Alarm)[id] = Alarm[id]
       /\ LiveIds(Alarm')
            = teardownHandles(activeSchedules') \ {dtINVALID_ALARM_ID}]_vars

\* C29 witness: a snapshot recorded with the invalid handle (the pool was
\* exhausted) has been restored after a restart: its handles were stale in
\* the new registry, and the alarms allocated by the restore are live.
C29_RestoredWithInvalidHandle ==
  /\ commitFailures = 0
  /\ Installed
  /\ ~activeSchedules.persistedInEEPROM
  /\ eeprom.persistedInEEPROM
  /\ dtINVALID_ALARM_ID \in teardownHandles(eeprom)
  /\ LiveIds(Alarm) = teardownHandles(activeSchedules) \ {dtINVALID_ALARM_ID}
  /\ Cardinality(LiveIds(Alarm)) = SmallPool

\* C30: with a weekend override and a regular night that crosses midnight,
\* the night switched on by Thursday's regular night start is switched off
\* on Friday at the regular night end: on Friday, from the regular night end
\* until Friday's night start, once the alarms of the minute are serviced,
\* nightActive is false.
C30_ThursdayNightEndsOnFriday ==
  (/\ Installed
   /\ weekendConfigured
   /\ activeSchedules.night.startHour > activeSchedules.night.endHour
   /\ weekdayNow = dowFriday
   /\ hourNow >= activeSchedules.night.endHour
   /\ hourNow < activeSchedules.weekendNight.startHour
   /\ NoneDue) =>
     ~activeSchedules.currentState.nightActive

\* the four regular alarms stand at the recorded regular times, every day
regularSlotsAsRecorded ==
  \E s \in {activeSchedules} :
    /\ slotIs(s.day.timerIds[0], dowAny, s.day.startHour, s.day.startMinute, "startDay")
    /\ slotIs(s.day.timerIds[1], dowAny, s.day.endHour, s.day.endMinute, "endDay")
    /\ slotIs(s.night.timerIds[0], dowAny, s.night.startHour, s.night.startMinute, "startNight")
    /\ slotIs(s.night.timerIds[1], dowAny, s.night.endHour, s.night.endMinute, "endNight")

derivedDay ==
  IF activeSchedules.currentState.dayActive
  THEN (activeSchedules.dayIntensity * 1023) \div 100 ELSE 0

derivedNight ==
  IF activeSchedules.currentState.nightActive
  THEN (activeSchedules.nightIntensity * 1023) \div 100 ELSE 0

pinsDerived == dayPin = derivedDay /\ nightPin = derivedNight

justFired(handler) ==
  lastFired # dtINVALID_ALARM_ID /\ Alarm[lastFired].handler = handler

\* C33: with a valid schedule left in force and the clock advancing, every
\* firing that switches a channel on is eventually followed by a firing that
\* switches the same channel off, and no channel stays on forever.
C33_EveryOnIsFollowedByOff ==
  /\ justFired("startDay") ~> justFired("endDay")
  /\ justFired("startNight") ~> justFired("endNight")
  /\ activeSchedules.currentState.dayActive ~> ~activeSchedules.currentState.dayActive
  /\ activeSchedules.currentState.nightActive ~> ~activeSchedules.currentState.nightActive

\* C33 witness: with a weekend override, the night that was on through
\* Friday has just been switched off by Saturday's weekend night end alarm.
C33_SaturdayNightEndFired ==
  /\ weekendConfigured
  /\ weekdayNow = dowSaturday
  /\ lastFired = activeSchedules.weekendNight.timerIds[1]
  /\ Alarm[lastFired].handler = "endNight"
  /\ ~activeSchedules.currentState.nightActive
  /\ activeSchedules.persistedInEEPROM

\* C34: in every reachable state weekendDay.startHour = -1 exactly when
\* weekendNight.startHour = -1 (the sentinel of "no weekend override" is
\* set on both or on neither).
C34_SentinelConsistent ==
  (activeSchedules.weekendDay.startHour = -1)
    <=> (activeSchedules.weekendNight.startHour = -1)

\* C35: the periodic block is entered in a loop iteration exactly when at
\* least 60000 ms have really elapsed since it last ran (since boot, for its
\* first run), it then records the time read as the time of its last run,
\* and the difference computed on the 32-bit counter is the time really
\* elapsed, also when the counter has passed 2^31 or wrapped at 2^32.
C35_RunsOncePerInterval ==
  [][pc = "periodic" =>
       /\ sub32(currentMillis, previousMillis) = toU32(sinceRun)
       /\ (sinceRun' = 0) <=> (sinceRun >= interval)
       /\ sinceRun' = 0 => previousMillis' = currentMillis
       /\ sinceRun' # 0 => /\ previousMillis' = previousMillis
                           /\ sinceRun' = sinceRun]_vars

\* C35 witness: the counter has wrapped (the time read is below the time of
\* the last run), 60000 ms or more have elapsed and the test is about to be
\* made.
C35_DueAcrossWrap ==
  /\ pc = "periodic"
  /\ previousMillis[1] >= 65534
  /\ currentMillis[1] = 0
  /\ sinceRun >= interval
  /\ intervalElapsed(currentMillis, previousMillis)

\* the handles recorded in timerIds[0 .. usedTimers - 1]
recordedV1(st) == {st.timerIds[i] : i \in 0..(st.usedTimers - 1)}

\* all four weekend times of the container are non-empty
weekendOnV1(st) ==
  /\ st.weekendDay.start # <<>> /\ st.weekendDay.end # <<>>
  /\ st.weekendNight.start # <<>> /\ st.weekendNight.end # <<>>

weekendOffV1(st) ==
  /\ st.weekendDay.start = <<>> /\ st.weekendDay.end = <<>>
  /\ st.weekendNight.start = <<>> /\ st.weekendNight.end = <<>>

\* the time the alarm recorded at index k is to carry: four alarms a day,
\* in the order day start, day end, night start, night end
timeAtV1(st, k) ==
  LET i == (k \div 4) + 1
      weekend == weekendOnV1(st) /\ i \in {dowSunday, dowSaturday}
      day == IF weekend THEN st.weekendDay ELSE st.weekDay
      night == IF weekend THEN st.weekendNight ELSE st.weekNight
  IN <<day.start, day.end, night.start, night.end>>[(k % 4) + 1]

handlerAtV1(k) ==
  <<"startDay", "endDay", "startNight", "endNight">>[(k % 4) + 1]

\* index k holds the handle of the alarm of day k \div 4 + 1, or the invalid
\* handle when the registry had no slot left for it
recordedAtV1(st, k) ==
  \/ st.timerIds[k] = dtINVALID_ALARM_ID
  \/ slotIs(st.timerIds[k], (k \div 4) + 1,
            toInt(substring(timeAtV1(st, k), 0, 2)),
            toInt(substringFrom(timeAtV1(st, k), 3)), handlerAtV1(k))

installedV1 ==
  /\ activeSchedules.usedTimers = timerIdsSize
  /\ DOMAIN activeSchedules.timerIds = 0..(timerIdsSize - 1)
  /\ weekendOnV1(activeSchedules) \/ weekendOffV1(activeSchedules)
  /\ \A k \in 0..(timerIdsSize - 1) : recordedAtV1(activeSchedules, k)
  /\ LiveIds(Alarm) = recordedV1(activeSchedules) \ {dtINVALID_ALARM_ID}
  /\ Cardinality(LiveIds(Alarm)) =
       IF Cardinality(DOMAIN Alarm) < timerIdsSize
       THEN Cardinality(DOMAIN Alarm) ELSE timerIdsSize

====
